---- MODULE Spec2Model ----
(***************************************************************************)
(* The `push` command of realm-cli (Command.Handler, createNewApp,         *)
(* createNewDraft, diffDraft, deployDraftAndWait) as a state machine.      *)
(* One push attempt is one linear pipeline; every remote call, prompt and  *)
(* local step is one action whose outcome (success, failure, the value     *)
(* returned) is chosen by the environment.                                 *)
(***************************************************************************)
EXTENDS Integers, Sequences, FiniteSets, TLC

VARIABLES
    pc,            \* position of the push attempt in Command.Handler
    inputs,        \* cmd.inputs: the push flags
    autoConfirm,   \* ui.AutoConfirm()
    to,            \* the resolved target: GroupID, AppID
    isNewApp,      \* Handler's isNewApp
    newApp,        \* createNewApp's locals: what appData provides, and name,
                   \* location, deploymentModel
    appRet,        \* what createNewApp returned: app id, proceed, err
    appDiffs,      \* the list returned by clients.Realm.Diff
    hostingDiffs,  \* the lines of the computed local.HostingDiffs
    diffs,         \* CommandDiff.Handler's diffs, the change list of app diff
    attempt,       \* two concurrent push attempts: position, draft, existingDraft
    server,        \* the server's draft of the application they push to
    existingDraft, \* createNewDraft's existingDraft.ID
    draftRet,      \* what createNewDraft returned: draft id, proceed, err
    deployment,    \* deployDraftAndWait's deployment: ID, Status
    refetchErr,    \* deployDraftAndWait's err after a failed re-fetch
    deployRet,     \* what deployDraftAndWait returned: returned, err
    calls,         \* every remote call made so far, in order
    out,           \* everything printed through ui.Print, in order
    prompts,       \* every interactive prompt shown so far, in order
    result         \* what the Handler returned: returned, err

vars == <<pc, inputs, autoConfirm, to, isNewApp, newApp, appRet, appDiffs,
          hostingDiffs, diffs, attempt, server, existingDraft, draftRet, deployment, refetchErr,
          deployRet, calls, out, prompts, result>>

----------------------------------------------------------------------------
(* Bounds of the model *)

\* longest list the remote Diff returns
MaxDiffLen == 2
\* most lines a hosting diff renders to
MaxHostingLen == 1
\* most status re-fetches of one deployment
MaxPolls == 3

----------------------------------------------------------------------------
(* Values *)

DiffLines == {"a1", "a2"}
HostingLines == {"h1"}
\* the ids the server gives to a draft it creates for this attempt, and the
\* ids of the draft that already exists for the app (the server never gives
\* a new draft the id of an earlier one)
DraftIDs == {"d1"}
ExistingDraftIDs == {"d0"}
DeploymentIDs == {"p1"}

SeqsUpTo(S, n) == UNION {[1..k -> S] : k \in 0..n}

\* The lists the remote Diff returns: each change is listed once.
DiffResults ==
    {d \in SeqsUpTo(DiffLines, MaxDiffLen) :
        \A i, j \in DOMAIN d : i # j => d[i] # d[j]}

\* realm.DeploymentStatus*
DeploymentStatusCreated == "created"
DeploymentStatusPending == "pending"
DeploymentStatusSuccessful == "successful"
DeploymentStatusFailed == "failed"
DeploymentStatuses == {DeploymentStatusCreated, DeploymentStatusPending,
                       DeploymentStatusSuccessful, DeploymentStatusFailed}

\* realm.ErrCodeDraftAlreadyExists
ErrCodeDraftAlreadyExists == "DraftAlreadyExists"

\* An error value: the step that produced it, whether it is a
\* realm.ServerError, and its Code.
NoErr == [op |-> "", server |-> FALSE, code |-> ""]

\* The errors of CreateDraft, whose type and Code createNewDraft inspects.
CreateDraftErrors ==
    { [op |-> "CreateDraft", server |-> TRUE, code |-> ErrCodeDraftAlreadyExists],
      [op |-> "CreateDraft", server |-> TRUE, code |-> "Other"],
      [op |-> "CreateDraft", server |-> FALSE, code |-> ""] }

\* The errors of a step whose error the code only passes on.
ErrorsOf(op) == { [op |-> op, server |-> FALSE, code |-> ""] }

\* One remote call: the client method, the function that made it, its
\* arguments beyond the target's group and app id, the value it returned
\* (a draft id, a deployment status) and its error (NoErr for nil).
CallRec(op, by, args, ret, e) ==
    [op |-> op, by |-> by, args |-> args, ret |-> ret, err |-> e]

\* One printed log: its fixed text and, for a list, its lines.
TextLog(msg) == [kind |-> "text", msg |-> msg, lines |-> <<>>]
DiffLog(lines) == [kind |-> "text",
                   msg |-> "The following reflects the proposed changes to your Realm app",
                   lines |-> lines]
\* what diffDraft prints about the existing draft (an empty draft, or the
\* lists of its changes)
DraftDiffLog == [kind |-> "list", msg |-> "draft already exists for your app",
                 lines |-> <<>>]
WarningLog(msg) == [kind |-> "warning", msg |-> msg, lines |-> <<>>]

MsgNewAppDryRun == "This is a new app. To create a new app, you must omit the 'dry-run' flag to proceed"
MsgIdentical == "Deployed app is identical to proposed version, nothing to do"
MsgDryRun == "To push these changes, you must omit the 'dry-run' flag to proceed"
MsgDeploymentComplete == "Deployment complete"
MsgDiscardFailed == "Failed to discard the draft created for your deployment"
MsgSuccess == "Successfully pushed app up"
MsgNewDependencies == "+ New function dependencies"

\* The outcomes of ui.Confirm: under auto-confirm it proceeds without
\* prompting, otherwise the user accepts, declines or the prompt fails.
ConfirmOutcomes(auto) ==
    IF auto
    THEN { [proceed |-> TRUE, failed |-> FALSE, prompted |-> FALSE] }
    ELSE { [proceed |-> TRUE, failed |-> FALSE, prompted |-> TRUE],
           [proceed |-> FALSE, failed |-> FALSE, prompted |-> TRUE],
           [proceed |-> FALSE, failed |-> TRUE, prompted |-> TRUE] }

\* One prompt shown: its message, the answer ("yes", "no", "answered" for a
\* text or a choice, "error" when the prompt failed) and the number of remote calls
\* made before it.
PromptRec(name, answer) == [name |-> name, answer |-> answer, at |-> Len(calls)]

Prompted(o, name) ==
    IF o.prompted
    THEN Append(prompts, PromptRec(name, IF o.failed THEN "error"
                                         ELSE IF o.proceed THEN "yes" ELSE "no"))
    ELSE prompts

----------------------------------------------------------------------------
(* Initial state: a push command with any flags, nothing done yet *)

NoNewApp == [appData |-> [name |-> "", location |-> "", deploymentModel |-> ""],
             name |-> "", location |-> "", deploymentModel |-> ""]
NoRet == [returned |-> FALSE, err |-> NoErr]
NoDraftRet == [returned |-> FALSE, draft |-> "", proceed |-> FALSE, err |-> NoErr]
NoAppRet == [returned |-> FALSE, id |-> "", proceed |-> FALSE, err |-> NoErr]
\* no draft is live, none was discarded, imported into or deployed
NoServer == [live |-> "", discards |-> {}, imports |-> {}, deployed |-> {}]

Init ==
    /\ pc = "LoadApp"
    /\ inputs \in [DryRun : BOOLEAN, IncludeDependencies : BOOLEAN,
                   IncludeHosting : BOOLEAN, ResetCDNCache : BOOLEAN]
    /\ autoConfirm \in BOOLEAN
    /\ to = [GroupID |-> "", AppID |-> ""]
    /\ isNewApp = FALSE
    /\ newApp = NoNewApp
    /\ appRet = NoAppRet
    /\ appDiffs = <<>>
    /\ hostingDiffs = <<>>
    /\ diffs = <<>>
    /\ attempt = <<>>
    /\ server = NoServer
    /\ existingDraft = ""
    /\ draftRet = NoDraftRet
    /\ deployment = [ID |-> "", Status |-> ""]
    /\ refetchErr = NoErr
    /\ deployRet = NoRet
    /\ calls = <<>>
    /\ out = <<>>
    /\ prompts = <<>>
    /\ result = NoRet

\* The Handler returns e (NoErr for nil).
Return(e) ==
    /\ pc' = "done"
    /\ result' = [returned |-> TRUE, err |-> e]

Goto(l) ==
    /\ pc' = l
    /\ UNCHANGED result

\* A remote call is made and returns ret, e.
Call(op, by, args, ret, e) ==
    calls' = Append(calls, CallRec(op, by, args, ret, e))

appVars == <<newApp, appRet, isNewApp>>
diffVars == <<appDiffs, hostingDiffs>>
draftVars == <<existingDraft, draftRet>>
deployVars == <<deployment, refetchErr, deployRet>>
cfgVars == <<inputs, autoConfirm>>
concVars == <<attempt, server>>

----------------------------------------------------------------------------
(* Command.Handler: loading the local app and resolving the target *)

\* app, err := local.LoadApp(cmd.inputs.AppDirectory)
Handler_LoadApp ==
    /\ pc = "LoadApp"
    /\ \/ Goto("resolveTo")
       \/ \E e \in ErrorsOf("LoadApp") : Return(e)
    /\ UNCHANGED <<cfgVars, diffs, concVars, to, appVars, diffVars, draftVars, deployVars,
                   calls, out, prompts>>

\* to, err := cmd.inputs.resolveTo(ui, clients.Realm)
Handler_resolveTo ==
    /\ pc = "resolveTo"
    /\ \/ /\ \E g \in {"", "g"}, a \in {"", "a"} :
                to' = [GroupID |-> g, AppID |-> a]
          /\ Goto("ResolveGroupID")
       \/ /\ \E e \in ErrorsOf("resolveTo") : Return(e)
          /\ UNCHANGED to
    /\ UNCHANGED <<cfgVars, diffs, concVars, appVars, diffVars, draftVars, deployVars,
                   calls, out, prompts>>

\* Faulty variant: a failed group resolution ends the push without an error.
Handler_ResolveGroupID_returnsNil ==
    /\ pc = "ResolveGroupID"
    /\ \/ /\ to.GroupID = ""
          /\ to' = [to EXCEPT !.GroupID = "g"]
          /\ Goto("isNewApp")
       \/ /\ to.GroupID = ""
          /\ Return(NoErr)
          /\ UNCHANGED to
       \/ /\ to.GroupID # ""
          /\ Goto("isNewApp")
          /\ UNCHANGED to
    /\ UNCHANGED <<cfgVars, diffs, concVars, appVars, diffVars, draftVars, deployVars,
                   calls, out, prompts>>

\* if to.GroupID == "" { groupID, err := cli.ResolveGroupID(ui, clients.Atlas) }
Handler_ResolveGroupID ==
    /\ pc = "ResolveGroupID"
    /\ \/ /\ to.GroupID = ""
          /\ to' = [to EXCEPT !.GroupID = "g"]
          /\ Goto("isNewApp")
       \/ /\ to.GroupID = ""
          /\ \E e \in ErrorsOf("ResolveGroupID") : Return(e)
          /\ UNCHANGED to
       \/ /\ to.GroupID # ""
          /\ Goto("isNewApp")
          /\ UNCHANGED to
    /\ UNCHANGED <<cfgVars, diffs, concVars, appVars, diffVars, draftVars, deployVars,
                   calls, out, prompts>>

\* if to.AppID == "" { if cmd.inputs.DryRun { ...; return nil }; createNewApp }
Handler_isNewApp ==
    /\ pc = "isNewApp"
    /\ \/ /\ to.AppID = "" /\ inputs.DryRun
          /\ out' = Append(out, TextLog(MsgNewAppDryRun))
          /\ Return(NoErr)
       \/ /\ to.AppID = "" /\ ~inputs.DryRun
          /\ Goto("createNewApp_Confirm")
          /\ UNCHANGED out
       \/ /\ to.AppID # ""
          /\ Goto("Diff")
          /\ UNCHANGED out
    /\ UNCHANGED <<cfgVars, diffs, concVars, to, appVars, diffVars, draftVars, deployVars,
                   calls, prompts>>

----------------------------------------------------------------------------
(* createNewApp *)

\* createNewApp returns (app, proceed, err) to the Handler.
createNewAppReturn(id, proceed, e) ==
    /\ appRet' = [returned |-> TRUE, id |-> id, proceed |-> proceed, err |-> e]
    /\ newApp' = NoNewApp
    /\ Goto("Handler_createNewApp")

\* if proceed, err := ui.Confirm("Do you wish to create a new app?")
createNewApp_Confirm ==
    /\ pc = "createNewApp_Confirm"
    /\ \E o \in ConfirmOutcomes(autoConfirm) :
          /\ prompts' = Prompted(o, "Do you wish to create a new app?")
          /\ IF o.failed
             THEN \E e \in ErrorsOf("Confirm") : createNewAppReturn("", FALSE, e)
             ELSE IF ~o.proceed
             THEN createNewAppReturn("", FALSE, NoErr)
             ELSE /\ Goto("createNewApp_appData")
                  /\ UNCHANGED <<newApp, appRet>>
    /\ UNCHANGED <<cfgVars, diffs, concVars, to, isNewApp, diffVars, draftVars, deployVars,
                   calls, out>>

\* name, location and deploymentModel are read from appData where it
\* provides them; an absent capability leaves the empty string.
createNewApp_appData ==
    /\ pc = "createNewApp_appData"
    /\ \E n \in {"", "app"}, l \in {"", "US-VA"}, dm \in {"", "GLOBAL"} :
          newApp' = [appData |-> [name |-> n, location |-> l, deploymentModel |-> dm],
                     name |-> n, location |-> l, deploymentModel |-> dm]
    /\ Goto("createNewApp_AskName")
    /\ UNCHANGED <<cfgVars, diffs, concVars, to, isNewApp, appRet, diffVars, draftVars,
                   deployVars, calls, out, prompts>>

\* Faulty variant: the name question is asked whatever auto-confirm says.
createNewApp_AskName_always ==
    /\ pc = "createNewApp_AskName"
    /\ \/ /\ \E n \in {newApp.name, "typed"} :
                /\ newApp' = [newApp EXCEPT !.name = n]
                /\ prompts' = Append(prompts, PromptRec("App Name", "answered"))
          /\ Goto("createNewApp_AskLocation")
          /\ UNCHANGED appRet
       \/ /\ prompts' = Append(prompts, PromptRec("App Name", "error"))
          /\ \E e \in ErrorsOf("AskOne") : createNewAppReturn("", FALSE, e)
    /\ UNCHANGED <<cfgVars, diffs, concVars, to, isNewApp, diffVars, draftVars, deployVars,
                   calls, out>>

\* if name == "" || !ui.AutoConfirm() { ui.AskOne(&name, "App Name") }
createNewApp_AskName ==
    /\ pc = "createNewApp_AskName"
    /\ \/ /\ newApp.name = "" \/ ~autoConfirm
          /\ \/ /\ \E n \in {newApp.name, "typed"} :
                      /\ newApp' = [newApp EXCEPT !.name = n]
                      /\ prompts' = Append(prompts, PromptRec("App Name", "answered"))
                /\ Goto("createNewApp_AskLocation")
                /\ UNCHANGED appRet
             \/ /\ prompts' = Append(prompts, PromptRec("App Name", "error"))
                /\ \E e \in ErrorsOf("AskOne") : createNewAppReturn("", FALSE, e)
       \/ /\ ~(newApp.name = "" \/ ~autoConfirm)
          /\ Goto("createNewApp_AskLocation")
          /\ UNCHANGED <<newApp, appRet, prompts>>
    /\ UNCHANGED <<cfgVars, diffs, concVars, to, isNewApp, diffVars, draftVars, deployVars,
                   calls, out>>

\* Faulty variant: the location question follows the rule of the name
\* question and is asked under auto-confirm when appData has no location.
createNewApp_AskLocation_whenEmpty ==
    /\ pc = "createNewApp_AskLocation"
    /\ \/ /\ newApp.location = "" \/ ~autoConfirm
          /\ \/ /\ \E l \in {"US-VA", "IE"} :
                      /\ newApp' = [newApp EXCEPT !.location = l]
                      /\ prompts' = Append(prompts, PromptRec("App Location", "answered"))
                /\ Goto("createNewApp_AskDeploymentModel")
                /\ UNCHANGED appRet
             \/ /\ prompts' = Append(prompts, PromptRec("App Location", "error"))
                /\ \E e \in ErrorsOf("AskOne") : createNewAppReturn("", FALSE, e)
       \/ /\ ~(newApp.location = "" \/ ~autoConfirm)
          /\ Goto("createNewApp_AskDeploymentModel")
          /\ UNCHANGED <<newApp, appRet, prompts>>
    /\ UNCHANGED <<cfgVars, diffs, concVars, to, isNewApp, diffVars, draftVars, deployVars,
                   calls, out>>

\* if !ui.AutoConfirm() { ui.AskOne(&location, "App Location") }
createNewApp_AskLocation ==
    /\ pc = "createNewApp_AskLocation"
    /\ \/ /\ ~autoConfirm
          /\ \/ /\ \E l \in {"US-VA", "IE"} :
                      /\ newApp' = [newApp EXCEPT !.location = l]
                      /\ prompts' = Append(prompts, PromptRec("App Location", "answered"))
                /\ Goto("createNewApp_AskDeploymentModel")
                /\ UNCHANGED appRet
             \/ /\ prompts' = Append(prompts, PromptRec("App Location", "error"))
                /\ \E e \in ErrorsOf("AskOne") : createNewAppReturn("", FALSE, e)
       \/ /\ autoConfirm
          /\ Goto("createNewApp_AskDeploymentModel")
          /\ UNCHANGED <<newApp, appRet, prompts>>
    /\ UNCHANGED <<cfgVars, diffs, concVars, to, isNewApp, diffVars, draftVars, deployVars,
                   calls, out>>

\* if !ui.AutoConfirm() { ui.AskOne(&deploymentModel, "App Deployment Model") }
createNewApp_AskDeploymentModel ==
    /\ pc = "createNewApp_AskDeploymentModel"
    /\ \/ /\ ~autoConfirm
          /\ \/ /\ \E dm \in {"GLOBAL", "LOCAL"} :
                      /\ newApp' = [newApp EXCEPT !.deploymentModel = dm]
                      /\ prompts' = Append(prompts, PromptRec("App Deployment Model", "answered"))
                /\ Goto("createNewApp_CreateApp")
                /\ UNCHANGED appRet
             \/ /\ prompts' = Append(prompts, PromptRec("App Deployment Model", "error"))
                /\ \E e \in ErrorsOf("AskOne") : createNewAppReturn("", FALSE, e)
       \/ /\ autoConfirm
          /\ Goto("createNewApp_CreateApp")
          /\ UNCHANGED <<newApp, appRet, prompts>>
    /\ UNCHANGED <<cfgVars, diffs, concVars, to, isNewApp, diffVars, draftVars, deployVars,
                   calls, out>>

\* app, err := realmClient.CreateApp(groupID, name, realm.AppMeta{...})
createNewApp_CreateApp ==
    /\ pc = "createNewApp_CreateApp"
    /\ \/ /\ Call("CreateApp", "createNewApp", <<>>, "", NoErr)
          /\ Goto("createNewApp_WriteConfig")
          /\ UNCHANGED <<newApp, appRet>>
       \/ /\ \E e \in ErrorsOf("CreateApp") :
                /\ Call("CreateApp", "createNewApp", <<>>, "", e)
                /\ createNewAppReturn("", FALSE, e)
    /\ UNCHANGED <<cfgVars, diffs, concVars, to, isNewApp, diffVars, draftVars, deployVars,
                   out, prompts>>

\* if err := local.AsApp(appDirectory, app).WriteConfig(); return app, true, nil
createNewApp_WriteConfig ==
    /\ pc = "createNewApp_WriteConfig"
    /\ \/ createNewAppReturn("a", TRUE, NoErr)
       \/ \E e \in ErrorsOf("WriteConfig") : createNewAppReturn("", FALSE, e)
    /\ UNCHANGED <<cfgVars, diffs, concVars, to, isNewApp, diffVars, draftVars, deployVars,
                   calls, out, prompts>>

\* app, proceed, err := createNewApp(...); to.AppID = app.ID; isNewApp = true
Handler_createNewApp ==
    /\ pc = "Handler_createNewApp"
    /\ \/ /\ appRet.err # NoErr
          /\ Return(appRet.err)
          /\ UNCHANGED <<to, isNewApp>>
       \/ /\ appRet.err = NoErr /\ ~appRet.proceed
          /\ Return(NoErr)
          /\ UNCHANGED <<to, isNewApp>>
       \/ /\ appRet.err = NoErr /\ appRet.proceed
          /\ to' = [to EXCEPT !.AppID = appRet.id]
          /\ isNewApp' = TRUE
          /\ Goto("Diff")
    /\ UNCHANGED <<cfgVars, diffs, concVars, newApp, appRet, diffVars, draftVars, deployVars,
                   calls, out, prompts>>

----------------------------------------------------------------------------
(* Command.Handler: determining the changes *)

\* local.HostingDiffs: Size() counts its added, deleted and modified assets,
\* Strings() renders one line for each of them.
HostingSize(h) == Len(h)
HostingStrings(h) == h

\* Faulty variant: the hosting lines come before the dependencies line.
PushDiffs_hostingFirst(app, includeDependencies, hosting) ==
    app \o HostingStrings(hosting)
        \o (IF includeDependencies THEN <<MsgNewDependencies>> ELSE <<>>)

\* diffs = appDiffs, then the dependencies line, then the hosting lines
PushDiffs(app, includeDependencies, hosting) ==
    app \o (IF includeDependencies THEN <<MsgNewDependencies>> ELSE <<>>)
        \o HostingStrings(hosting)

\* Faulty variant: a failed Diff is taken for an empty list of changes.
Handler_Diff_ignoresError ==
    /\ pc = "Diff"
    /\ out' = Append(out, TextLog("Determining changes"))
    /\ \/ /\ Call("Diff", "Handler", <<>>, "", NoErr)
          /\ appDiffs' \in DiffResults
       \/ /\ \E e \in ErrorsOf("Diff") : Call("Diff", "Handler", <<>>, "", e)
          /\ UNCHANGED appDiffs
    /\ Goto("FindAppHosting")
    /\ UNCHANGED <<cfgVars, diffs, concVars, to, appVars, hostingDiffs, draftVars, deployVars,
                   prompts>>

\* appDiffs, err := clients.Realm.Diff(to.GroupID, to.AppID, app.AppData)
Handler_Diff ==
    /\ pc = "Diff"
    /\ out' = Append(out, TextLog("Determining changes"))
    /\ \/ /\ Call("Diff", "Handler", <<>>, "", NoErr)
          /\ appDiffs' \in DiffResults
          /\ Goto("FindAppHosting")
       \/ /\ \E e \in ErrorsOf("Diff") :
                /\ Call("Diff", "Handler", <<>>, "", e)
                /\ Return(e)
          /\ UNCHANGED appDiffs
    /\ UNCHANGED <<cfgVars, diffs, concVars, to, appVars, hostingDiffs, draftVars, deployVars,
                   prompts>>

\* hosting, err := local.FindAppHosting(app.RootDir)
Handler_FindAppHosting ==
    /\ pc = "FindAppHosting"
    /\ \/ Goto(IF inputs.IncludeHosting THEN "HostingAssets" ELSE "identical")
       \/ \E e \in ErrorsOf("FindAppHosting") : Return(e)
    /\ UNCHANGED <<cfgVars, diffs, concVars, to, appVars, diffVars, draftVars, deployVars,
                   calls, out, prompts>>

\* if cmd.inputs.IncludeHosting { appAssets, err := clients.Realm.HostingAssets(...) }
Handler_HostingAssets ==
    /\ pc = "HostingAssets"
    /\ \/ /\ Call("HostingAssets", "Handler", <<>>, "", NoErr)
          /\ Goto("hostingDiffs")
       \/ /\ \E e \in ErrorsOf("HostingAssets") :
                /\ Call("HostingAssets", "Handler", <<>>, "", e)
                /\ Return(e)
    /\ UNCHANGED <<cfgVars, diffs, concVars, to, appVars, diffVars, draftVars, deployVars,
                   out, prompts>>

\* hostingDiffs, err = hosting.Diffs(profile.HostingAssetCachePath(), to.AppID, appAssets)
Handler_hostingDiffs ==
    /\ pc = "hostingDiffs"
    /\ \/ /\ hostingDiffs' \in SeqsUpTo(HostingLines, MaxHostingLen)
          /\ Goto("identical")
       \/ /\ \E e \in ErrorsOf("hosting.Diffs") : Return(e)
          /\ UNCHANGED hostingDiffs
    /\ UNCHANGED <<cfgVars, diffs, concVars, to, appVars, appDiffs, draftVars, deployVars,
                   calls, out, prompts>>

\* Faulty variant: the hosting flag is tested instead of the hosting diff.
NothingToDo_hostingFlag ==
    /\ Len(appDiffs) = 0
    /\ ~inputs.IncludeDependencies
    /\ ~inputs.IncludeHosting

\* if len(appDiffs) == 0 && !cmd.inputs.IncludeDependencies && hostingDiffs.Size() == 0
NothingToDo ==
    /\ Len(appDiffs) = 0
    /\ ~inputs.IncludeDependencies
    /\ HostingSize(hostingDiffs) = 0

Handler_identical ==
    /\ pc = "identical"
    /\ \/ /\ NothingToDo
          /\ out' = Append(out, TextLog(MsgIdentical))
          /\ Return(NoErr)
       \/ /\ ~NothingToDo
          /\ Goto("printDiffs")
          /\ UNCHANGED out
    /\ UNCHANGED <<cfgVars, diffs, concVars, to, appVars, diffVars, draftVars, deployVars,
                   calls, prompts>>

\* if !ui.AutoConfirm() && !isNewApp { ui.Print(the proposed changes) }
Handler_printDiffs ==
    /\ pc = "printDiffs"
    /\ \/ /\ ~autoConfirm /\ ~isNewApp
          /\ out' = Append(out, DiffLog(PushDiffs(appDiffs, inputs.IncludeDependencies,
                                                  hostingDiffs)))
       \/ /\ ~(~autoConfirm /\ ~isNewApp)
          /\ UNCHANGED out
    /\ Goto("DryRun")
    /\ UNCHANGED <<cfgVars, diffs, concVars, to, appVars, diffVars, draftVars, deployVars,
                   calls, prompts>>

\* Faulty variant: the dry run does not return.
Handler_DryRun_proceeds ==
    /\ pc = "DryRun"
    /\ \/ /\ inputs.DryRun
          /\ out' = Append(out, TextLog(MsgDryRun))
       \/ /\ ~inputs.DryRun
          /\ UNCHANGED out
    /\ Goto("Confirm")
    /\ UNCHANGED <<cfgVars, diffs, concVars, to, appVars, diffVars, draftVars, deployVars,
                   calls, prompts>>

\* if cmd.inputs.DryRun { ui.Print(...); return nil }
Handler_DryRun ==
    /\ pc = "DryRun"
    /\ \/ /\ inputs.DryRun
          /\ out' = Append(out, TextLog(MsgDryRun))
          /\ Return(NoErr)
       \/ /\ ~inputs.DryRun
          /\ Goto("Confirm")
          /\ UNCHANGED out
    /\ UNCHANGED <<cfgVars, diffs, concVars, to, appVars, diffVars, draftVars, deployVars,
                   calls, prompts>>

\* proceed, err := ui.Confirm("Please confirm the changes shown above")
Handler_Confirm ==
    /\ pc = "Confirm"
    /\ \E o \in ConfirmOutcomes(autoConfirm) :
          /\ prompts' = Prompted(o, "Please confirm the changes shown above")
          /\ IF o.failed
             THEN \E e \in ErrorsOf("Confirm") : Return(e)
             ELSE IF ~o.proceed
             THEN Return(NoErr)
             ELSE Goto("CreateDraft")
    /\ UNCHANGED <<cfgVars, diffs, concVars, to, appVars, diffVars, draftVars, deployVars,
                   calls, out>>

----------------------------------------------------------------------------
(* createNewDraft *)

\* createNewDraft returns (draft, proceed, err) to the Handler.
createNewDraftReturn(draft, proceed, e) ==
    /\ draftRet' = [returned |-> TRUE, draft |-> draft, proceed |-> proceed, err |-> e]
    /\ Goto("Handler_createNewDraft")

\* Faulty variant: every server error is taken for the conflict.
IsDraftAlreadyExists_anyServerError(e) == e.server

\* err, ok := draftErr.(realm.ServerError); ok && err.Code == realm.ErrCodeDraftAlreadyExists
IsDraftAlreadyExists(e) == e.server /\ e.code = ErrCodeDraftAlreadyExists

\* draft, draftErr := realmClient.CreateDraft(to.GroupID, to.AppID)
createNewDraft_CreateDraft ==
    /\ pc = "CreateDraft"
    /\ out' = Append(out, TextLog("Creating draft"))
    /\ \/ \E d \in DraftIDs :
             /\ Call("CreateDraft", "createNewDraft", <<>>, d, NoErr)
             /\ createNewDraftReturn(d, TRUE, NoErr)
       \/ /\ \E e \in CreateDraftErrors :
                /\ Call("CreateDraft", "createNewDraft", <<>>, "", e)
                /\ IF IsDraftAlreadyExists(e)
                      THEN Goto("createNewDraft_Draft") /\ UNCHANGED draftRet
                      ELSE createNewDraftReturn("", FALSE, e)
    /\ UNCHANGED <<cfgVars, diffs, concVars, to, appVars, diffVars, existingDraft, deployVars,
                   prompts>>

\* existingDraft, existingDraftErr := realmClient.Draft(to.GroupID, to.AppID)
createNewDraft_Draft ==
    /\ pc = "createNewDraft_Draft"
    /\ \/ /\ \E d \in ExistingDraftIDs :
                /\ Call("Draft", "createNewDraft", <<>>, d, NoErr)
                /\ existingDraft' = d
          /\ Goto("createNewDraft_diffDraft")
          /\ UNCHANGED draftRet
       \/ /\ \E e \in ErrorsOf("Draft") :
                /\ Call("Draft", "createNewDraft", <<>>, "", e)
                /\ createNewDraftReturn("", FALSE, e)
          /\ UNCHANGED existingDraft
    /\ UNCHANGED <<cfgVars, diffs, concVars, to, appVars, diffVars, deployVars, out, prompts>>

\* if !ui.AutoConfirm() { if err := diffDraft(ui, realmClient, to, existingDraft.ID) }
createNewDraft_diffDraft ==
    /\ pc = "createNewDraft_diffDraft"
    /\ \/ /\ ~autoConfirm
          /\ Call("DiffDraft", "diffDraft", <<existingDraft>>, "", NoErr)
          /\ out' = Append(out, DraftDiffLog)
          /\ Goto("createNewDraft_Confirm")
          /\ UNCHANGED draftRet
       \/ /\ ~autoConfirm
          /\ \E e \in ErrorsOf("DiffDraft") :
                /\ Call("DiffDraft", "diffDraft", <<existingDraft>>, "", e)
                /\ createNewDraftReturn("", FALSE, e)
          /\ UNCHANGED out
       \/ /\ autoConfirm
          /\ Goto("createNewDraft_DiscardDraft")
          /\ UNCHANGED <<draftRet, calls, out>>
    /\ UNCHANGED <<cfgVars, diffs, concVars, to, appVars, diffVars, existingDraft, deployVars,
                   prompts>>

\* proceed, proceedErr := ui.Confirm("Would you like to discard this draft?")
createNewDraft_Confirm ==
    /\ pc = "createNewDraft_Confirm"
    /\ \E o \in ConfirmOutcomes(autoConfirm) :
          /\ prompts' = Prompted(o, "Would you like to discard this draft?")
          /\ IF o.failed
             THEN \E e \in ErrorsOf("Confirm") : createNewDraftReturn("", FALSE, e)
             ELSE IF ~o.proceed
             THEN createNewDraftReturn("", FALSE, NoErr)
             ELSE Goto("createNewDraft_DiscardDraft") /\ UNCHANGED draftRet
    /\ UNCHANGED <<cfgVars, diffs, concVars, to, appVars, diffVars, existingDraft, deployVars,
                   calls, out>>

\* Faulty variant: the draft is created again although the discard failed.
createNewDraft_DiscardDraft_unchecked ==
    /\ pc = "createNewDraft_DiscardDraft"
    /\ \/ Call("DiscardDraft", "createNewDraft", <<existingDraft>>, "", NoErr)
       \/ \E e \in ErrorsOf("DiscardDraft") :
             Call("DiscardDraft", "createNewDraft", <<existingDraft>>, "", e)
    /\ Goto("createNewDraft_CreateDraft2")
    /\ UNCHANGED draftRet
    /\ UNCHANGED <<cfgVars, diffs, concVars, to, appVars, diffVars, existingDraft, deployVars,
                   out, prompts>>

\* if err := realmClient.DiscardDraft(to.GroupID, to.AppID, existingDraft.ID)
createNewDraft_DiscardDraft ==
    /\ pc = "createNewDraft_DiscardDraft"
    /\ \/ /\ Call("DiscardDraft", "createNewDraft", <<existingDraft>>, "", NoErr)
          /\ Goto("createNewDraft_CreateDraft2")
          /\ UNCHANGED draftRet
       \/ /\ \E e \in ErrorsOf("DiscardDraft") :
                /\ Call("DiscardDraft", "createNewDraft", <<existingDraft>>, "", e)
                /\ createNewDraftReturn("", FALSE, e)
    /\ UNCHANGED <<cfgVars, diffs, concVars, to, appVars, diffVars, existingDraft, deployVars,
                   out, prompts>>

\* Faulty variant: the existing draft is returned instead of the new one.
createNewDraft_CreateDraft2_existing ==
    /\ pc = "createNewDraft_CreateDraft2"
    /\ \/ \E d \in DraftIDs :
             /\ Call("CreateDraft", "createNewDraft", <<>>, d, NoErr)
             /\ createNewDraftReturn(existingDraft, TRUE, NoErr)
       \/ /\ \E e \in CreateDraftErrors :
                /\ Call("CreateDraft", "createNewDraft", <<>>, "", e)
                /\ createNewDraftReturn("", TRUE, e)
    /\ UNCHANGED <<cfgVars, diffs, concVars, to, appVars, diffVars, existingDraft, deployVars,
                   out, prompts>>

\* draft, draftErr = realmClient.CreateDraft(to.GroupID, to.AppID)
\* return draft, true, draftErr
createNewDraft_CreateDraft2 ==
    /\ pc = "createNewDraft_CreateDraft2"
    /\ \/ \E d \in DraftIDs :
             /\ Call("CreateDraft", "createNewDraft", <<>>, d, NoErr)
             /\ createNewDraftReturn(d, TRUE, NoErr)
       \/ /\ \E e \in CreateDraftErrors :
                /\ Call("CreateDraft", "createNewDraft", <<>>, "", e)
                /\ createNewDraftReturn("", TRUE, e)
    /\ UNCHANGED <<cfgVars, diffs, concVars, to, appVars, diffVars, existingDraft, deployVars,
                   out, prompts>>

\* Faulty variant: proceed is tested before err.
Handler_createNewDraft_proceedFirst ==
    /\ pc = "Handler_createNewDraft"
    /\ \/ /\ draftRet.proceed
          /\ Goto("Import")
       \/ /\ ~draftRet.proceed /\ draftRet.err # NoErr
          /\ Return(draftRet.err)
       \/ /\ ~draftRet.proceed /\ draftRet.err = NoErr
          /\ Return(NoErr)
    /\ UNCHANGED <<cfgVars, diffs, concVars, to, appVars, diffVars, draftVars, deployVars,
                   calls, out, prompts>>

\* Faulty variant: proceed is not tested.
Handler_createNewDraft_ignoresProceed ==
    /\ pc = "Handler_createNewDraft"
    /\ \/ /\ draftRet.err # NoErr
          /\ Return(draftRet.err)
       \/ /\ draftRet.err = NoErr
          /\ Goto("Import")
    /\ UNCHANGED <<cfgVars, diffs, concVars, to, appVars, diffVars, draftVars, deployVars,
                   calls, out, prompts>>

\* draft, proceed, err := createNewDraft(ui, clients.Realm, to)
Handler_createNewDraft ==
    /\ pc = "Handler_createNewDraft"
    /\ \/ /\ draftRet.err # NoErr
          /\ Return(draftRet.err)
       \/ /\ draftRet.err = NoErr /\ ~draftRet.proceed
          /\ Return(NoErr)
       \/ /\ draftRet.err = NoErr /\ draftRet.proceed
          /\ Goto("Import")
    /\ UNCHANGED <<cfgVars, diffs, concVars, to, appVars, diffVars, draftVars, deployVars,
                   calls, out, prompts>>

\* Faulty variant: the draft is deployed although Import failed.
Handler_Import_ignoresError ==
    /\ pc = "Import"
    /\ out' = Append(out, TextLog("Pushing changes"))
    /\ \/ Call("Import", "Handler", <<>>, "", NoErr)
       \/ \E e \in ErrorsOf("Import") : Call("Import", "Handler", <<>>, "", e)
    /\ Goto("DeployDraft")
    /\ UNCHANGED <<cfgVars, diffs, concVars, to, appVars, diffVars, draftVars, deployVars,
                   prompts>>

\* if err := clients.Realm.Import(to.GroupID, to.AppID, app.AppData)
Handler_Import ==
    /\ pc = "Import"
    /\ out' = Append(out, TextLog("Pushing changes"))
    /\ \/ /\ Call("Import", "Handler", <<>>, "", NoErr)
          /\ Goto("DeployDraft")
       \/ /\ \E e \in ErrorsOf("Import") :
                /\ Call("Import", "Handler", <<>>, "", e)
                /\ Return(e)
    /\ UNCHANGED <<cfgVars, diffs, concVars, to, appVars, diffVars, draftVars, deployVars,
                   prompts>>

----------------------------------------------------------------------------
(* deployDraftAndWait *)

\* deployDraftAndWait returns err to the Handler.
deployDraftAndWaitReturn(e) ==
    /\ deployRet' = [returned |-> TRUE, err |-> e]
    /\ Goto("Handler_deployDraftAndWait")

\* Faulty variant: only Created counts as in flight.
InFlight_createdOnly(status) ==
    status = DeploymentStatusCreated

\* deployment.Status == DeploymentStatusCreated || deployment.Status == DeploymentStatusPending
InFlight(status) ==
    status = DeploymentStatusCreated \/ status = DeploymentStatusPending

\* the number of status re-fetches made so far
Refetches == Cardinality({i \in DOMAIN calls : calls[i].op = "Deployment"})

\* deployment, err := realmClient.DeployDraft(to.GroupID, to.AppID, draftID)
deployDraftAndWait_DeployDraft ==
    /\ pc = "DeployDraft"
    /\ out' = Append(out, TextLog("Deploying draft"))
    /\ \/ /\ \E d \in [ID : DeploymentIDs, Status : DeploymentStatuses] :
                /\ Call("DeployDraft", "deployDraftAndWait", <<draftRet.draft>>,
                        d.Status, NoErr)
                /\ deployment' = d
          /\ Goto("waitForDeployment")
          /\ UNCHANGED deployRet
       \/ /\ \E e \in ErrorsOf("DeployDraft") :
                /\ Call("DeployDraft", "deployDraftAndWait", <<draftRet.draft>>, "", e)
                /\ deployDraftAndWaitReturn(e)
          /\ UNCHANGED deployment
    /\ UNCHANGED <<cfgVars, diffs, concVars, to, appVars, diffVars, draftVars, refetchErr,
                   prompts>>

\* for deployment.Status is Created or Pending {
\*     deployment, err = realmClient.Deployment(to.GroupID, to.AppID, deployment.ID)
waitForDeployment_Deployment ==
    /\ pc = "waitForDeployment"
    /\ InFlight(deployment.Status)
    /\ Refetches < MaxPolls
    /\ \/ /\ \E d \in [ID : {deployment.ID}, Status : DeploymentStatuses] :
                /\ Call("Deployment", "deployDraftAndWait", <<deployment.ID>>,
                        d.Status, NoErr)
                /\ deployment' = d
          /\ Goto("waitForDeployment")
          /\ UNCHANGED refetchErr
       \/ /\ \E e \in ErrorsOf("Deployment") :
                /\ Call("Deployment", "deployDraftAndWait", <<deployment.ID>>, "", e)
                /\ refetchErr' = e
          /\ deployment' = [ID |-> "", Status |-> ""]
          /\ Goto("waitForDeployment_DiscardDraft")
    /\ UNCHANGED <<cfgVars, diffs, concVars, to, appVars, diffVars, draftVars, deployRet,
                   out, prompts>>

\* Faulty variant: the re-fetch error is returned with no compensating discard.
waitForDeployment_DiscardDraft_skipped ==
    /\ pc = "waitForDeployment_DiscardDraft"
    /\ deployDraftAndWaitReturn(refetchErr)
    /\ UNCHANGED <<cfgVars, diffs, concVars, to, appVars, diffVars, draftVars, deployment,
                   refetchErr, calls, out, prompts>>

\* Faulty variant: a failed compensating discard returns its own error.
waitForDeployment_DiscardDraft_masking ==
    /\ pc = "waitForDeployment_DiscardDraft"
    /\ \/ /\ Call("DiscardDraft", "deployDraftAndWait", <<draftRet.draft>>, "", NoErr)
          /\ deployDraftAndWaitReturn(refetchErr)
          /\ UNCHANGED out
       \/ /\ \E e \in ErrorsOf("DiscardDraft") :
                /\ Call("DiscardDraft", "deployDraftAndWait", <<draftRet.draft>>, "", e)
                /\ deployDraftAndWaitReturn(e)
          /\ out' = Append(out, WarningLog(MsgDiscardFailed))
    /\ UNCHANGED <<cfgVars, diffs, concVars, to, appVars, diffVars, draftVars, deployment,
                   refetchErr, prompts>>

\* if err != nil { if e := realmClient.DiscardDraft(to.GroupID, to.AppID, draftID); e != nil
\*     { ui.Print(warning) }; return err }
waitForDeployment_DiscardDraft ==
    /\ pc = "waitForDeployment_DiscardDraft"
    /\ \/ /\ Call("DiscardDraft", "deployDraftAndWait", <<draftRet.draft>>, "", NoErr)
          /\ UNCHANGED out
       \/ /\ \E e \in ErrorsOf("DiscardDraft") :
                Call("DiscardDraft", "deployDraftAndWait", <<draftRet.draft>>, "", e)
          /\ out' = Append(out, WarningLog(MsgDiscardFailed))
    /\ deployDraftAndWaitReturn(refetchErr)
    /\ UNCHANGED <<cfgVars, diffs, concVars, to, appVars, diffVars, draftVars, deployment,
                   refetchErr, prompts>>

\* Faulty variant: the loop only ends on Successful.
deployDraftAndWait_complete_onlySuccessful ==
    /\ pc = "waitForDeployment"
    /\ deployment.Status = DeploymentStatusSuccessful
    /\ out' = Append(out, TextLog(MsgDeploymentComplete))
    /\ deployDraftAndWaitReturn(NoErr)
    /\ UNCHANGED <<cfgVars, diffs, concVars, to, appVars, diffVars, draftVars, deployment,
                   refetchErr, calls, prompts>>

\* the loop ends: waitForDeployment returns nil, "Deployment complete", return nil
deployDraftAndWait_complete ==
    /\ pc = "waitForDeployment"
    /\ ~InFlight(deployment.Status)
    /\ out' = Append(out, TextLog(MsgDeploymentComplete))
    /\ deployDraftAndWaitReturn(NoErr)
    /\ UNCHANGED <<cfgVars, diffs, concVars, to, appVars, diffVars, draftVars, deployment,
                   refetchErr, calls, prompts>>

----------------------------------------------------------------------------
(* Command.Handler: after the deployment *)

\* the stage after the dependencies stage
HostingStage == IF inputs.IncludeHosting THEN "UploadHostingAssets" ELSE "success"

\* the stage after deployDraftAndWait
DependenciesStage ==
    IF inputs.IncludeDependencies THEN "FindAppDependencies" ELSE HostingStage

\* the stage after the hosting upload
CacheStage == IF inputs.ResetCDNCache THEN "HostingCacheInvalidate" ELSE "success"

\* if err := deployDraftAndWait(ui, clients.Realm, to, draft.ID); err != nil { return err }
Handler_deployDraftAndWait ==
    /\ pc = "Handler_deployDraftAndWait"
    /\ \/ /\ deployRet.err # NoErr
          /\ Return(deployRet.err)
       \/ /\ deployRet.err = NoErr
          /\ Goto(DependenciesStage)
    /\ UNCHANGED <<cfgVars, diffs, concVars, to, appVars, diffVars, draftVars, deployVars,
                   calls, out, prompts>>

\* dependencies, err := local.FindAppDependencies(app.RootDir)
Handler_FindAppDependencies ==
    /\ pc = "FindAppDependencies"
    /\ \/ Goto("PrepareUpload")
       \/ \E e \in ErrorsOf("FindAppDependencies") : Return(e)
    /\ UNCHANGED <<cfgVars, diffs, concVars, to, appVars, diffVars, draftVars, deployVars,
                   calls, out, prompts>>

\* uploadPath, err := prepareUpload()
Handler_PrepareUpload ==
    /\ pc = "PrepareUpload"
    /\ \/ /\ out' = Append(out, TextLog("Transpiled dependency sources"))
          /\ Goto("ImportDependencies")
       \/ /\ \E e \in ErrorsOf("PrepareUpload") : Return(e)
          /\ UNCHANGED out
    /\ UNCHANGED <<cfgVars, diffs, concVars, to, appVars, diffVars, draftVars, deployVars,
                   calls, prompts>>

\* if err := clients.Realm.ImportDependencies(to.GroupID, to.AppID, uploadPath)
Handler_ImportDependencies ==
    /\ pc = "ImportDependencies"
    /\ \/ /\ Call("ImportDependencies", "Handler", <<>>, "", NoErr)
          /\ out' = Append(out, TextLog("Uploaded dependencies archive"))
          /\ Goto(HostingStage)
       \/ /\ \E e \in ErrorsOf("ImportDependencies") :
                /\ Call("ImportDependencies", "Handler", <<>>, "", e)
                /\ Return(e)
          /\ UNCHANGED out
    /\ UNCHANGED <<cfgVars, diffs, concVars, to, appVars, diffVars, draftVars, deployVars,
                   prompts>>

\* Faulty variant: a failed hosting upload does not stop the later stages.
Handler_UploadHostingAssets_ignoresError ==
    /\ pc = "UploadHostingAssets"
    /\ \/ Call("UploadHostingAssets", "Handler", <<>>, "", NoErr)
       \/ \E e \in ErrorsOf("UploadHostingAssets") :
             Call("UploadHostingAssets", "Handler", <<>>, "", e)
    /\ out' = Append(out, TextLog("Import hosting assets"))
    /\ Goto(CacheStage)
    /\ UNCHANGED <<cfgVars, diffs, concVars, to, appVars, diffVars, draftVars, deployVars,
                   prompts>>

\* if cmd.inputs.IncludeHosting { if err := importHosting(); err != nil { return err } }
Handler_UploadHostingAssets ==
    /\ pc = "UploadHostingAssets"
    /\ \/ /\ Call("UploadHostingAssets", "Handler", <<>>, "", NoErr)
          /\ out' = Append(out, TextLog("Import hosting assets"))
          /\ Goto(CacheStage)
       \/ /\ \E e \in ErrorsOf("UploadHostingAssets") :
                /\ Call("UploadHostingAssets", "Handler", <<>>, "", e)
                /\ Return(e)
          /\ UNCHANGED out
    /\ UNCHANGED <<cfgVars, diffs, concVars, to, appVars, diffVars, draftVars, deployVars,
                   prompts>>

\* if cmd.inputs.ResetCDNCache { if err := invalidateCache(); err != nil { return err } }
Handler_HostingCacheInvalidate ==
    /\ pc = "HostingCacheInvalidate"
    /\ \/ /\ Call("HostingCacheInvalidate", "Handler", <<>>, "", NoErr)
          /\ out' = Append(out, TextLog("Reset CDN cache"))
          /\ Goto("success")
       \/ /\ \E e \in ErrorsOf("HostingCacheInvalidate") :
                /\ Call("HostingCacheInvalidate", "Handler", <<>>, "", e)
                /\ Return(e)
          /\ UNCHANGED out
    /\ UNCHANGED <<cfgVars, diffs, concVars, to, appVars, diffVars, draftVars, deployVars,
                   prompts>>

\* ui.Print("Successfully pushed app up: %s"); return nil
Handler_success ==
    /\ pc = "success"
    /\ out' = Append(out, TextLog(MsgSuccess))
    /\ Return(NoErr)
    /\ UNCHANGED <<cfgVars, diffs, concVars, to, appVars, diffVars, draftVars, deployVars,
                   calls, prompts>>

----------------------------------------------------------------------------
(* The specification: one push attempt *)

Next ==
    \/ Handler_LoadApp
    \/ Handler_resolveTo
    \/ Handler_ResolveGroupID
    \/ Handler_isNewApp
    \/ createNewApp_Confirm
    \/ createNewApp_appData
    \/ createNewApp_AskName
    \/ createNewApp_AskLocation
    \/ createNewApp_AskDeploymentModel
    \/ createNewApp_CreateApp
    \/ createNewApp_WriteConfig
    \/ Handler_createNewApp
    \/ Handler_Diff
    \/ Handler_FindAppHosting
    \/ Handler_HostingAssets
    \/ Handler_hostingDiffs
    \/ Handler_identical
    \/ Handler_printDiffs
    \/ Handler_DryRun
    \/ Handler_Confirm
    \/ createNewDraft_CreateDraft
    \/ createNewDraft_Draft
    \/ createNewDraft_diffDraft
    \/ createNewDraft_Confirm
    \/ createNewDraft_DiscardDraft
    \/ createNewDraft_CreateDraft2
    \/ Handler_createNewDraft
    \/ Handler_Import
    \/ deployDraftAndWait_DeployDraft
    \/ waitForDeployment_Deployment
    \/ waitForDeployment_DiscardDraft
    \/ deployDraftAndWait_complete
    \/ Handler_deployDraftAndWait
    \/ Handler_FindAppDependencies
    \/ Handler_PrepareUpload
    \/ Handler_ImportDependencies
    \/ Handler_UploadHostingAssets
    \/ Handler_HostingCacheInvalidate
    \/ Handler_success

Spec == Init /\ [][Next]_vars

\* One push attempt in which every call returns and the Handler, a
\* sequential program, goes on to its next statement.
SpecLive == Init /\ [][Next]_vars /\ WF_vars(Next)

----------------------------------------------------------------------------
(* CommandDiff.Handler: the app diff command *)

MsgDiffIdentical == "Deployed app is identical to proposed version"

\* the variables of the push that the app diff command has no use for
pushVars == <<autoConfirm, isNewApp, newApp, appRet, draftVars, deployVars,
              prompts>>

\* The state before CommandDiff.Handler runs: diffInputs has the two
\* include flags only.
InitDiff ==
    /\ pc = "CommandDiff_LoadApp"
    /\ inputs \in [IncludeDependencies : BOOLEAN, IncludeHosting : BOOLEAN]
    /\ autoConfirm = FALSE
    /\ to = [GroupID |-> "", AppID |-> ""]
    /\ isNewApp = FALSE
    /\ newApp = NoNewApp
    /\ appRet = NoAppRet
    /\ appDiffs = <<>>
    /\ hostingDiffs = <<>>
    /\ diffs = <<>>
    /\ attempt = <<>>
    /\ server = NoServer
    /\ existingDraft = ""
    /\ draftRet = NoDraftRet
    /\ deployment = [ID |-> "", Status |-> ""]
    /\ refetchErr = NoErr
    /\ deployRet = NoRet
    /\ calls = <<>>
    /\ out = <<>>
    /\ prompts = <<>>
    /\ result = NoRet

\* app, err := local.LoadApp(cmd.inputs.AppDirectory)
CommandDiff_LoadApp ==
    /\ pc = "CommandDiff_LoadApp"
    /\ \/ Goto("CommandDiff_ResolveApp")
       \/ \E e \in ErrorsOf("LoadApp") : Return(e)
    /\ UNCHANGED <<inputs, pushVars, concVars, to, diffVars, diffs, calls, out>>

\* appToDiff, err := cli.ResolveApp(ui, clients.Realm, cmd.inputs.Filter())
CommandDiff_ResolveApp ==
    /\ pc = "CommandDiff_ResolveApp"
    /\ \/ /\ to' = [GroupID |-> "g", AppID |-> "a"]
          /\ Goto("CommandDiff_Diff")
       \/ /\ \E e \in ErrorsOf("ResolveApp") : Return(e)
          /\ UNCHANGED to
    /\ UNCHANGED <<inputs, pushVars, concVars, diffVars, diffs, calls, out>>

\* diffs, err := clients.Realm.Diff(appToDiff.GroupID, appToDiff.ID, app.AppData)
\* appDiffs keeps the list as the call returned it.
CommandDiff_Diff ==
    /\ pc = "CommandDiff_Diff"
    /\ \/ /\ Call("Diff", "CommandDiff", <<>>, "", NoErr)
          /\ \E d \in DiffResults :
                /\ appDiffs' = d
                /\ diffs' = d
          /\ Goto("CommandDiff_IncludeDependencies")
       \/ /\ \E e \in ErrorsOf("Diff") :
                /\ Call("Diff", "CommandDiff", <<>>, "", e)
                /\ Return(e)
          /\ UNCHANGED <<appDiffs, diffs>>
    /\ UNCHANGED <<inputs, pushVars, concVars, to, hostingDiffs, out>>

\* Faulty variant: the dependencies line is put in front of the list.
CommandDiff_IncludeDependencies_prepends ==
    /\ pc = "CommandDiff_IncludeDependencies"
    /\ \/ /\ inputs.IncludeDependencies
          /\ diffs' = <<MsgNewDependencies>> \o diffs
       \/ /\ ~inputs.IncludeDependencies
          /\ UNCHANGED diffs
    /\ Goto("CommandDiff_FindAppHosting")
    /\ UNCHANGED <<inputs, pushVars, concVars, to, diffVars, calls, out>>

\* if cmd.inputs.IncludeDependencies { diffs = append(diffs, "+ New function dependencies") }
CommandDiff_IncludeDependencies ==
    /\ pc = "CommandDiff_IncludeDependencies"
    /\ \/ /\ inputs.IncludeDependencies
          /\ diffs' = Append(diffs, MsgNewDependencies)
       \/ /\ ~inputs.IncludeDependencies
          /\ UNCHANGED diffs
    /\ Goto("CommandDiff_FindAppHosting")
    /\ UNCHANGED <<inputs, pushVars, concVars, to, diffVars, calls, out>>

\* Faulty variant: the hosting assets are fetched whatever IncludeHosting is.
CommandDiff_FindAppHosting_always ==
    /\ pc = "CommandDiff_FindAppHosting"
    /\ \/ Goto("CommandDiff_HostingAssets")
       \/ \E e \in ErrorsOf("FindAppHosting") : Return(e)
    /\ UNCHANGED <<inputs, pushVars, concVars, to, diffVars, diffs, calls, out>>

\* if cmd.inputs.IncludeHosting { hosting, err := local.FindAppHosting(app.RootDir)
CommandDiff_FindAppHosting ==
    /\ pc = "CommandDiff_FindAppHosting"
    /\ \/ /\ inputs.IncludeHosting
          /\ \/ Goto("CommandDiff_HostingAssets")
             \/ \E e \in ErrorsOf("FindAppHosting") : Return(e)
       \/ /\ ~inputs.IncludeHosting
          /\ Goto("CommandDiff_identical")
    /\ UNCHANGED <<inputs, pushVars, concVars, to, diffVars, diffs, calls, out>>

\* appAssets, err := clients.Realm.HostingAssets(appToDiff.GroupID, appToDiff.ID)
CommandDiff_HostingAssets ==
    /\ pc = "CommandDiff_HostingAssets"
    /\ \/ /\ Call("HostingAssets", "CommandDiff", <<>>, "", NoErr)
          /\ Goto("CommandDiff_hostingDiffs")
       \/ /\ \E e \in ErrorsOf("HostingAssets") :
                /\ Call("HostingAssets", "CommandDiff", <<>>, "", e)
                /\ Return(e)
    /\ UNCHANGED <<inputs, pushVars, concVars, to, diffVars, diffs, out>>

\* hostingDiffs, err := hosting.Diffs(profile.HostingAssetCachePath(), appToDiff.ID, appAssets)
CommandDiff_hostingDiffs ==
    /\ pc = "CommandDiff_hostingDiffs"
    /\ \/ /\ hostingDiffs' \in SeqsUpTo(HostingLines, MaxHostingLen)
          /\ Goto("CommandDiff_appendHosting")
       \/ /\ \E e \in ErrorsOf("hosting.Diffs") : Return(e)
          /\ UNCHANGED hostingDiffs
    /\ UNCHANGED <<inputs, pushVars, concVars, to, appDiffs, diffs, calls, out>>

\* Faulty variant: the hosting lines are not added to the list.
CommandDiff_appendHosting_dropsLines ==
    /\ pc = "CommandDiff_appendHosting"
    /\ UNCHANGED diffs
    /\ Goto("CommandDiff_identical")
    /\ UNCHANGED <<inputs, pushVars, concVars, to, diffVars, calls, out>>

\* diffs = append(diffs, hostingDiffs.Strings()...)
CommandDiff_appendHosting ==
    /\ pc = "CommandDiff_appendHosting"
    /\ diffs' = diffs \o HostingStrings(hostingDiffs)
    /\ Goto("CommandDiff_identical")
    /\ UNCHANGED <<inputs, pushVars, concVars, to, diffVars, calls, out>>

\* if len(diffs) == 0 { ui.Print("Deployed app is identical to proposed version"); return nil }
CommandDiff_identical ==
    /\ pc = "CommandDiff_identical"
    /\ \/ /\ Len(diffs) = 0
          /\ out' = Append(out, TextLog(MsgDiffIdentical))
          /\ Return(NoErr)
       \/ /\ Len(diffs) # 0
          /\ Goto("CommandDiff_print")
          /\ UNCHANGED out
    /\ UNCHANGED <<inputs, pushVars, concVars, to, diffVars, diffs, calls>>

\* ui.Print("The following reflects the proposed changes to your Realm app\n%s"); return nil
CommandDiff_print ==
    /\ pc = "CommandDiff_print"
    /\ out' = Append(out, DiffLog(diffs))
    /\ Return(NoErr)
    /\ UNCHANGED <<inputs, pushVars, concVars, to, diffVars, diffs, calls>>

NextDiff ==
    \/ CommandDiff_LoadApp
    \/ CommandDiff_ResolveApp
    \/ CommandDiff_Diff
    \/ CommandDiff_IncludeDependencies
    \/ CommandDiff_FindAppHosting
    \/ CommandDiff_HostingAssets
    \/ CommandDiff_hostingDiffs
    \/ CommandDiff_appendHosting
    \/ CommandDiff_identical
    \/ CommandDiff_print

SpecDiff == InitDiff /\ [][NextDiff]_vars

----------------------------------------------------------------------------
(* The two commands side by side: one run of push or one run of app diff *)

InitCommands == Init \/ InitDiff

NextCommands == Next \/ NextDiff

SpecCommands == InitCommands /\ [][NextCommands]_vars

\* the run is one of the app diff command: diffInputs has no DryRun flag
IsDiffCommand == "DryRun" \notin DOMAIN inputs

----------------------------------------------------------------------------
(* Two push attempts at once against one application *)

Attempts == {1, 2}
\* the id the server gives to the draft it creates for attempt a, and the id
\* of a draft left over by an earlier attempt
DraftOf(a) == IF a = 1 THEN "d1" ELSE "d2"
LeftOverDraft == "d0"

\* The server keeps at most one live draft for the application: CreateDraft
\* is refused with the conflict while one is live.
Server_CreateDraft(id) == [server EXCEPT !.live = id]
\* DiscardDraft removes the live draft, whoever asks.
Server_DiscardDraft(id, by) ==
    [server EXCEPT !.live = "", !.discards = @ \cup {<<id, by>>}]
\* Import writes into the draft that is live at the time.
Server_Import(by) == [server EXCEPT !.imports = @ \cup {<<server.live, by>>}]
\* DeployDraft starts deploying the live draft, which stays live until the
\* deployment ends.
Server_DeployDraft(id) == [server EXCEPT !.deployed = @ \cup {id}]
\* A deployment that ends, Successful or Failed, consumes its draft.
Server_EndDeployment(id) ==
    IF server.live = id THEN [server EXCEPT !.live = ""] ELSE server

\* the variables of the single push attempt and of app diff
seqVars == <<pc, cfgVars, to, appVars, diffVars, diffs, draftVars, deployVars,
             calls, out, prompts, result>>

\* Both attempts have a non-empty diff confirmed and are about to call
\* createNewDraft; a draft of an earlier attempt may be live.
InitConcurrent ==
    /\ pc = "concurrent"
    /\ inputs = [DryRun |-> FALSE, IncludeDependencies |-> FALSE,
                 IncludeHosting |-> FALSE, ResetCDNCache |-> FALSE]
    /\ autoConfirm \in BOOLEAN
    /\ to = [GroupID |-> "g", AppID |-> "a"]
    /\ isNewApp = FALSE
    /\ newApp = NoNewApp
    /\ appRet = NoAppRet
    /\ appDiffs = <<"a1">>
    /\ hostingDiffs = <<>>
    /\ diffs = <<>>
    /\ attempt = [a \in Attempts |->
                    [pc |-> "CreateDraft", draft |-> "", existingDraft |-> "",
                     err |-> NoErr]]
    /\ server \in {NoServer, [NoServer EXCEPT !.live = LeftOverDraft]}
    /\ existingDraft = ""
    /\ draftRet = NoDraftRet
    /\ deployment = [ID |-> "", Status |-> ""]
    /\ refetchErr = NoErr
    /\ deployRet = NoRet
    /\ calls = <<>>
    /\ out = <<>>
    /\ prompts = <<>>
    /\ result = NoRet

\* attempt a goes on to l
AttemptGoto(a, l) ==
    attempt' = [attempt EXCEPT ![a].pc = l]
\* attempt a returns e from its Handler
AttemptReturn(a, e) ==
    attempt' = [attempt EXCEPT ![a].pc = "done", ![a].err = e]

\* draft, draftErr := realmClient.CreateDraft(to.GroupID, to.AppID)
Concurrent_CreateDraft(a) ==
    /\ attempt[a].pc = "CreateDraft"
    /\ \/ /\ server.live = ""
          /\ server' = Server_CreateDraft(DraftOf(a))
          /\ attempt' = [attempt EXCEPT ![a].pc = "Import", ![a].draft = DraftOf(a)]
       \/ /\ server.live # ""
          /\ AttemptGoto(a, "Draft")
          /\ UNCHANGED server
    /\ UNCHANGED seqVars

\* existingDraft, existingDraftErr := realmClient.Draft(to.GroupID, to.AppID)
Concurrent_Draft(a) ==
    /\ attempt[a].pc = "Draft"
    /\ \/ /\ server.live # ""
          /\ attempt' = [attempt EXCEPT ![a].pc = "Confirm",
                                        ![a].existingDraft = server.live]
       \/ /\ server.live = ""
          /\ \E e \in ErrorsOf("Draft") : AttemptReturn(a, e)
    /\ UNCHANGED <<server, seqVars>>

\* if !ui.AutoConfirm() { diffDraft; ui.Confirm("Would you like to discard this draft?") }
Concurrent_Confirm(a) ==
    /\ attempt[a].pc = "Confirm"
    /\ \/ /\ ~autoConfirm /\ server.live # attempt[a].existingDraft
          /\ \E e \in ErrorsOf("DiffDraft") : AttemptReturn(a, e)
       \/ /\ autoConfirm \/ server.live = attempt[a].existingDraft
          /\ \E o \in ConfirmOutcomes(autoConfirm) :
                IF o.failed
                THEN \E e \in ErrorsOf("Confirm") : AttemptReturn(a, e)
                ELSE IF ~o.proceed
                THEN AttemptReturn(a, NoErr)
                ELSE AttemptGoto(a, "DiscardDraft")
    /\ UNCHANGED <<server, seqVars>>

\* if err := realmClient.DiscardDraft(to.GroupID, to.AppID, existingDraft.ID)
Concurrent_DiscardDraft(a) ==
    /\ attempt[a].pc = "DiscardDraft"
    /\ \/ /\ server.live = attempt[a].existingDraft
          /\ server' = Server_DiscardDraft(attempt[a].existingDraft, a)
          /\ AttemptGoto(a, "CreateDraft2")
       \/ /\ server.live # attempt[a].existingDraft
          /\ \E e \in ErrorsOf("DiscardDraft") : AttemptReturn(a, e)
          /\ UNCHANGED server
    /\ UNCHANGED seqVars

\* draft, draftErr = realmClient.CreateDraft(to.GroupID, to.AppID)
\* return draft, true, draftErr
Concurrent_CreateDraft2(a) ==
    /\ attempt[a].pc = "CreateDraft2"
    /\ \/ /\ server.live = ""
          /\ server' = Server_CreateDraft(DraftOf(a))
          /\ attempt' = [attempt EXCEPT ![a].pc = "Import", ![a].draft = DraftOf(a)]
       \/ /\ server.live # ""
          /\ \E e \in CreateDraftErrors :
                IsDraftAlreadyExists(e) /\ AttemptReturn(a, e)
          /\ UNCHANGED server
    /\ UNCHANGED seqVars

\* if err := clients.Realm.Import(to.GroupID, to.AppID, app.AppData)
Concurrent_Import(a) ==
    /\ attempt[a].pc = "Import"
    /\ \/ /\ server.live # ""
          /\ server' = Server_Import(a)
          /\ AttemptGoto(a, "DeployDraft")
       \/ /\ server.live = ""
          /\ \E e \in ErrorsOf("Import") : AttemptReturn(a, e)
          /\ UNCHANGED server
    /\ UNCHANGED seqVars

\* deployment, err := realmClient.DeployDraft(to.GroupID, to.AppID, draftID)
Concurrent_DeployDraft(a) ==
    /\ attempt[a].pc = "DeployDraft"
    /\ \/ /\ server.live = attempt[a].draft
          /\ server' = Server_DeployDraft(attempt[a].draft)
          /\ AttemptGoto(a, "waitForDeployment")
       \/ /\ server.live # attempt[a].draft
          /\ \E e \in ErrorsOf("DeployDraft") : AttemptReturn(a, e)
          /\ UNCHANGED server
    /\ UNCHANGED seqVars

\* the loop of waitForDeployment: a re-fetch returns a terminal status and
\* nil is returned, or a re-fetch fails
Concurrent_waitForDeployment(a) ==
    /\ attempt[a].pc = "waitForDeployment"
    /\ \/ /\ server' = Server_EndDeployment(attempt[a].draft)
          /\ AttemptReturn(a, NoErr)
       \/ /\ \E e \in ErrorsOf("Deployment") :
                attempt' = [attempt EXCEPT ![a].pc = "waitForDeployment_DiscardDraft",
                                           ![a].err = e]
          /\ UNCHANGED server
    /\ UNCHANGED seqVars

\* if e := realmClient.DiscardDraft(to.GroupID, to.AppID, draftID); return err
Concurrent_waitForDeployment_DiscardDraft(a) ==
    /\ attempt[a].pc = "waitForDeployment_DiscardDraft"
    /\ \/ /\ server.live = attempt[a].draft
          /\ server' = Server_DiscardDraft(attempt[a].draft, a)
       \/ /\ server.live # attempt[a].draft
          /\ UNCHANGED server
    /\ AttemptGoto(a, "done")
    /\ UNCHANGED seqVars

NextConcurrent ==
    \E a \in Attempts :
        \/ Concurrent_CreateDraft(a)
        \/ Concurrent_Draft(a)
        \/ Concurrent_Confirm(a)
        \/ Concurrent_DiscardDraft(a)
        \/ Concurrent_CreateDraft2(a)
        \/ Concurrent_Import(a)
        \/ Concurrent_DeployDraft(a)
        \/ Concurrent_waitForDeployment(a)
        \/ Concurrent_waitForDeployment_DiscardDraft(a)

SpecConcurrent == InitConcurrent /\ [][NextConcurrent]_vars

----------------------------------------------------------------------------
(* Properties of one push attempt *)

\* The remote calls that change remote state.
MutatingOps == {"CreateApp", "CreateDraft", "DiscardDraft", "Import",
                "DeployDraft", "ImportDependencies", "UploadHostingAssets",
                "HostingCacheInvalidate"}

CallsOf(op) == {i \in DOMAIN calls : calls[i].op = op}
Mutations == {i \in DOMAIN calls : calls[i].op \in MutatingOps}
Printed(msg) == \E i \in DOMAIN out : out[i].msg = msg
Warnings == {i \in DOMAIN out : out[i].kind = "warning"}
\* the calls createNewDraft made, in order
DraftCalls == SelectSeq(calls, LAMBDA c : c.by = "createNewDraft")
\* the compensating discards of deployDraftAndWait
CompensatingDiscards ==
    {i \in DOMAIN calls : calls[i].op = "DiscardDraft" /\ calls[i].by = "deployDraftAndWait"}
IsConflict(e) == e.server /\ e.code = "DraftAlreadyExists"

\* C1: when the polled deployment ends in the status Failed the push attempt
\* fails: no "Deployment complete", no "Successfully pushed app up", no
\* successful return of the Handler, and none of the later stages (dependency
\* upload, hosting upload, cache invalidation) runs.
C1_FailedDeploymentFailsAttempt ==
    deployment.Status = DeploymentStatusFailed =>
        /\ ~Printed(MsgDeploymentComplete)
        /\ ~Printed(MsgSuccess)
        /\ ~(result.returned /\ result.err = NoErr)
        /\ CallsOf("ImportDependencies") = {}
        /\ CallsOf("UploadHostingAssets") = {}
        /\ CallsOf("HostingCacheInvalidate") = {}

\* C2: once deployDraftAndWait has returned after a failed status re-fetch,
\* the failed re-fetch was the last one, exactly one DiscardDraft was issued
\* by deployDraftAndWait, after the failure and for the draft id that was
\* submitted to DeployDraft, and the error returned is the re-fetch error.
C2_RefetchFailureDiscardsOnce ==
    \A i \in CallsOf("Deployment") :
        (calls[i].err # NoErr /\ deployRet.returned) =>
            /\ \A j \in CallsOf("Deployment") : j <= i
            /\ Cardinality(CompensatingDiscards) = 1
            /\ \A j \in CompensatingDiscards :
                  /\ j > i
                  /\ calls[j].args = <<draftRet.draft>>
                  /\ \E k \in CallsOf("DeployDraft") :
                        /\ k < i
                        /\ calls[k].err = NoErr
                        /\ calls[k].args = calls[j].args
            /\ deployRet.err = calls[i].err
            /\ (result.returned => result.err = calls[i].err)

C2_Witness ==
    /\ deployRet.returned
    /\ Cardinality(CallsOf("Deployment")) = 3
    /\ \E i \in CallsOf("Deployment") : calls[i].err # NoErr
    /\ \E j \in CompensatingDiscards : calls[j].err = NoErr

\* C3: when the compensating DiscardDraft fails too, deployDraftAndWait and
\* the Handler still return the re-fetch error, never the discard error, and
\* the discard failure shows as exactly one warning log.
C3_DiscardFailureDoesNotMask ==
    \A j \in CompensatingDiscards :
        calls[j].err # NoErr =>
            /\ deployRet.returned
            /\ deployRet.err # calls[j].err
            /\ \E i \in CallsOf("Deployment") :
                  i < j /\ calls[i].err # NoErr /\ deployRet.err = calls[i].err
            /\ (result.returned => result.err = deployRet.err)
            /\ Cardinality(Warnings) = 1
            /\ \A w \in Warnings : out[w].msg = MsgDiscardFailed

C3_Witness ==
    /\ pc = "done"
    /\ \E j \in CompensatingDiscards : calls[j].err # NoErr
    /\ result.err.op = "Deployment"

\* C4: when the Handler has returned, a draft obtained from a successful
\* CreateDraft has been deployed to a terminal deployment status or a
\* DiscardDraft call was made for it.
C4_DraftNeverOutlivesAttempt ==
    (result.returned /\ draftRet.returned /\ draftRet.err = NoErr /\ draftRet.proceed) =>
        \/ /\ \E k \in CallsOf("DeployDraft") :
                 calls[k].err = NoErr /\ calls[k].args = <<draftRet.draft>>
           /\ deployment.Status \in {DeploymentStatusSuccessful, DeploymentStatusFailed}
        \/ \E j \in CallsOf("DiscardDraft") : calls[j].args = <<draftRet.draft>>

\* C5: conflict recovery. When createNewDraft has returned after a first
\* CreateDraft that failed with the draft-already-exists code, a successful
\* Draft fetch, a successful DiscardDraft and a successful last CreateDraft,
\* it returned proceed = true and no error with the draft of that last
\* CreateDraft (not the existing draft), after exactly four calls of which
\* exactly one is a DiscardDraft, made for the existing draft.
C5_ConflictRecovery ==
    LET cs == DraftCalls
        discards == {i \in DOMAIN cs : cs[i].op = "DiscardDraft"}
        fetches == {i \in DOMAIN cs : cs[i].op = "Draft"}
    IN  (/\ draftRet.returned
         /\ Len(cs) >= 2
         /\ cs[1].op = "CreateDraft" /\ IsConflict(cs[1].err)
         /\ \E i \in fetches : cs[i].err = NoErr
         /\ \E i \in discards : cs[i].err = NoErr
         /\ cs[Len(cs)].op = "CreateDraft" /\ cs[Len(cs)].err = NoErr)
        =>
        /\ draftRet.proceed
        /\ draftRet.err = NoErr
        /\ draftRet.draft = cs[Len(cs)].ret
        /\ \A i \in fetches : draftRet.draft # cs[i].ret
        /\ Len(cs) = 4
        /\ Cardinality(discards) = 1
        /\ \A i \in discards : \E f \in fetches : cs[i].args = <<cs[f].ret>>

C5_Witness ==
    /\ draftRet.returned /\ draftRet.proceed /\ draftRet.err = NoErr
    /\ ~autoConfirm
    /\ Len(DraftCalls) = 4
    /\ draftRet.draft \in DraftIDs
    /\ \E p \in DOMAIN prompts :
          /\ prompts[p].name = "Would you like to discard this draft?"
          /\ prompts[p].answer = "yes"

\* C6: conflict resolution is bounded. createNewDraft calls CreateDraft at
\* most twice and DiscardDraft at most once; when its second CreateDraft or
\* its DiscardDraft fails, that call is the last remote call of the attempt,
\* createNewDraft and the Handler return that error, and neither Import nor
\* DeployDraft is called.
C6_BoundedConflictResolution ==
    LET creates == CallsOf("CreateDraft")
        discards == {i \in CallsOf("DiscardDraft") : calls[i].by = "createNewDraft"}
        fatal == {i \in DOMAIN calls :
                    /\ calls[i].err # NoErr
                    /\ \/ i \in discards
                       \/ i \in creates /\ \E k \in creates : k < i}
    IN  /\ Cardinality(creates) <= 2
        /\ Cardinality(discards) <= 1
        /\ \A i \in fatal :
              /\ i = Len(calls)
              /\ CallsOf("Import") = {}
              /\ CallsOf("DeployDraft") = {}
              /\ draftRet.returned /\ draftRet.err = calls[i].err
              /\ pc \in {"Handler_createNewDraft", "done"}
              /\ pc = "done" => result.returned /\ result.err = calls[i].err

C6_Witness ==
    /\ pc = "done"
    /\ Cardinality(CallsOf("CreateDraft")) = 2
    /\ IsConflict(calls[Len(calls)].err)
    /\ calls[Len(calls)].op = "CreateDraft"
    /\ result.err = calls[Len(calls)].err

\* C7: when the first CreateDraft fails with an error that is not a server
\* error with the draft-already-exists code, createNewDraft returns that
\* error at once: it is the only call of createNewDraft and the last remote
\* call of the attempt (no Draft, DiffDraft, DiscardDraft, second CreateDraft
\* or Import), no prompt follows it, and the Handler returns that error.
C7_OtherCreateDraftErrorIsFatal ==
    LET creates == CallsOf("CreateDraft")
    IN  \A i \in creates :
            (/\ \A k \in creates : i <= k
             /\ calls[i].err # NoErr
             /\ ~IsConflict(calls[i].err))
            =>
            /\ i = Len(calls)
            /\ Len(DraftCalls) = 1
            /\ \A p \in DOMAIN prompts : prompts[p].at < i
            /\ draftRet.returned /\ draftRet.err = calls[i].err
            /\ pc \in {"Handler_createNewDraft", "done"}
            /\ pc = "done" => result.returned /\ result.err = calls[i].err

C7_Witness ==
    /\ pc = "done"
    /\ Cardinality(CallsOf("CreateDraft")) = 1
    /\ calls[Len(calls)].op = "CreateDraft"
    /\ calls[Len(calls)].err.server
    /\ calls[Len(calls)].err.code = "Other"
    /\ result.err = calls[Len(calls)].err

\* C8: at each of the three confirmation points (create a new app, confirm
\* the changes, discard the existing draft) a decline is the last prompt of
\* the attempt, no remote mutating call is made after it, and the Handler
\* returns without error.
ConfirmationPoints ==
    {"Do you wish to create a new app?",
     "Please confirm the changes shown above",
     "Would you like to discard this draft?"}

C8_DeclineStopsCleanly ==
    \A p \in DOMAIN prompts :
        (prompts[p].name \in ConfirmationPoints /\ prompts[p].answer = "no") =>
            /\ p = Len(prompts)
            /\ \A j \in Mutations : j <= prompts[p].at
            /\ pc \in {"Handler_createNewApp", "Handler_createNewDraft", "done"}
            /\ pc = "done" => result.returned /\ result.err = NoErr

C8_Witness ==
    /\ pc = "done"
    /\ result.err = NoErr
    /\ Len(prompts) = 2
    /\ prompts[2].name = "Would you like to discard this draft?"
    /\ prompts[2].answer = "no"
    /\ Mutations # {}

\* C9 as stated: for an existing app whose remote Diff returned the empty
\* list the push makes no remote mutating call, whatever the push flags.
C9_EmptyDiffNoMutation_AnyFlags ==
    (/\ CallsOf("CreateApp") = {}
     /\ \E i \in CallsOf("Diff") : calls[i].err = NoErr
     /\ appDiffs = <<>>)
    => Mutations = {}

\* C9 amended: for an existing app whose remote Diff returned the empty list,
\* with IncludeDependencies not set and no hosting difference (IncludeHosting
\* not set, or a computed hosting diff of size zero), the push makes no
\* remote mutating call and shows no prompt, whatever DryRun, ResetCDNCache
\* and auto-confirm are.
C9_EmptyDiffNoMutation ==
    (/\ CallsOf("CreateApp") = {}
     /\ \E i \in CallsOf("Diff") : calls[i].err = NoErr
     /\ appDiffs = <<>>
     /\ ~inputs.IncludeDependencies
     /\ hostingDiffs = <<>>)
    =>
    /\ Mutations = {}
    /\ prompts = <<>>
    /\ pc \in {"FindAppHosting", "HostingAssets", "hostingDiffs", "identical", "done"}

C9_Witness ==
    /\ pc = "done"
    /\ result.err = NoErr
    /\ Printed(MsgIdentical)
    /\ \E i \in CallsOf("HostingAssets") : calls[i].err = NoErr
    /\ inputs.ResetCDNCache /\ ~inputs.DryRun /\ autoConfirm

\* C10: with DryRun set the Handler never reaches draft creation: no remote
\* mutating call is ever made, for a new and for an existing target app,
\* with and without auto-confirm.
C10_DryRunNeverMutates ==
    inputs.DryRun =>
        /\ Mutations = {}
        /\ pc \in {"LoadApp", "resolveTo", "ResolveGroupID", "isNewApp", "Diff",
                   "FindAppHosting", "HostingAssets", "hostingDiffs", "identical",
                   "printDiffs", "DryRun", "done"}

C10_Witness ==
    /\ pc = "done"
    /\ inputs.DryRun
    /\ Printed(MsgDryRun)
    /\ \E i \in DOMAIN out : out[i].lines # <<>>

\* The labels of createNewApp at which name has been settled.
AfterAskName ==
    {"createNewApp_AskLocation", "createNewApp_AskDeploymentModel",
     "createNewApp_CreateApp", "createNewApp_WriteConfig"}

\* C11 (as stated): with auto-confirm set no interactive prompt is invoked
\* at any decision point of a push attempt, whatever appData provides.
C11_AutoConfirmNeverPrompts ==
    autoConfirm => prompts = <<>>

\* C11 (amended): with auto-confirm set the only prompt a push attempt can
\* invoke is the "App Name" question of createNewApp, once, and it is asked
\* exactly when appData provides no name; the new-app, location,
\* deployment-model, change and draft-discard questions are never asked.
C11_AutoConfirmPromptsOnlyForMissingName ==
    autoConfirm =>
        /\ Len(prompts) <= 1
        /\ \A i \in DOMAIN prompts :
              /\ prompts[i].name = "App Name"
              /\ prompts[i].at = 0
        /\ pc \in AfterAskName => (prompts # <<>> <=> newApp.appData.name = "")

C11_Witness ==
    /\ pc = "done"
    /\ autoConfirm /\ isNewApp
    /\ prompts = <<>>
    /\ Printed(MsgSuccess)
    /\ \E i \in CallsOf("DiscardDraft") : calls[i].by = "createNewDraft"

\* The questions createNewApp asks through ui.AskOne.
AskOneQuestions == {"App Name", "App Location", "App Deployment Model"}

\* C12 (as stated): with auto-confirm set CreateApp is called with exactly
\* the name, location and deployment model read from appData, an absent
\* capability giving the empty value, unmodified by any prompt.  The call
\* passes the locals of createNewApp as they stand at the call.
C12_CreateAppUsesAppDataVerbatim ==
    (autoConfirm /\ pc \in {"createNewApp_CreateApp", "createNewApp_WriteConfig"}) =>
        /\ newApp.name = newApp.appData.name
        /\ newApp.location = newApp.appData.location
        /\ newApp.deploymentModel = newApp.appData.deploymentModel
        /\ \A i \in DOMAIN prompts : prompts[i].name \notin AskOneQuestions

\* C12 (amended): with auto-confirm set CreateApp is called with the
\* location and deployment model of appData verbatim (empty when absent),
\* and with the name of appData verbatim and unprompted when appData has
\* one; when appData has no name, the name is what the "App Name" question
\* returned.
C12_CreateAppUsesAppData ==
    (autoConfirm /\ pc \in {"createNewApp_CreateApp", "createNewApp_WriteConfig"}) =>
        /\ newApp.location = newApp.appData.location
        /\ newApp.deploymentModel = newApp.appData.deploymentModel
        /\ newApp.appData.name # "" =>
              /\ newApp.name = newApp.appData.name
              /\ \A i \in DOMAIN prompts : prompts[i].name \notin AskOneQuestions
        /\ newApp.appData.name = "" =>
              \A i \in DOMAIN prompts :
                  prompts[i].name \in AskOneQuestions =>
                      /\ prompts[i].name = "App Name"
                      /\ prompts[i].answer = "answered"
        /\ newApp.appData.name = "" =>
              \E i \in DOMAIN prompts : prompts[i].name = "App Name"

C12_Witness ==
    /\ pc = "createNewApp_WriteConfig"
    /\ autoConfirm
    /\ calls[Len(calls)].op = "CreateApp" /\ calls[Len(calls)].err = NoErr
    /\ newApp.appData = [name |-> "app", location |-> "", deploymentModel |-> "GLOBAL"]
    /\ newApp.name = "app" /\ newApp.location = "" /\ newApp.deploymentModel = "GLOBAL"
    /\ \A i \in DOMAIN prompts : prompts[i].name \notin AskOneQuestions

\* the calls that return a deployment, DeployDraft and the re-fetches
StatusCalls == {i \in DOMAIN calls : calls[i].op \in {"DeployDraft", "Deployment"}}
\* the statuses {Created, Pending}
InFlightStatuses == {"created", "pending"}
\* deployDraftAndWait returned and every call it made for a status succeeded
PolledWithoutError ==
    /\ deployRet.returned
    /\ \A i \in StatusCalls : calls[i].err = NoErr

\* C13: when DeployDraft and every re-fetch succeed, deployDraftAndWait
\* makes exactly one re-fetch per in-flight status (Created, Pending) it
\* observed, the status of DeployDraft included, and stops at the first
\* status outside that set; when that status is Successful it returns no
\* error and makes no DiscardDraft call.
C13_PollCount ==
    PolledWithoutError =>
        /\ Cardinality(CallsOf("Deployment"))
              = Cardinality({i \in StatusCalls : calls[i].ret \in InFlightStatuses})
        /\ \E last \in StatusCalls :
              /\ \A i \in StatusCalls : i <= last
              /\ calls[last].ret \notin InFlightStatuses
              /\ \A i \in StatusCalls \ {last} : calls[i].ret \in InFlightStatuses
              /\ calls[last].ret = "successful" =>
                    /\ deployRet.err = NoErr
                    /\ CompensatingDiscards = {}

C13_Witness ==
    /\ PolledWithoutError
    /\ deployRet.err = NoErr
    /\ Cardinality(CallsOf("Deployment")) = 3
    /\ CompensatingDiscards = {}
    /\ \E d \in CallsOf("DeployDraft") :
          /\ d + 3 = Len(calls)
          /\ <<calls[d].ret, calls[d + 1].ret, calls[d + 2].ret, calls[d + 3].ret>>
                = <<"created", "pending", "pending", "successful">>

\* C14: when the polled statuses end in Failed and every re-fetch
\* succeeded, deployDraftAndWait reports the Failed status to its caller,
\* that is, returns something other than the nil error it returns for
\* Successful, and makes no DiscardDraft call.
C14_FailedStatusReported ==
    (PolledWithoutError /\ deployment.Status = "failed") =>
        /\ deployRet.err # NoErr
        /\ CompensatingDiscards = {}

\* The place of each remote call of a push in the order of the stages.
StageRank(op) ==
    CASE op = "Diff" -> 1
      [] op = "CreateDraft" -> 2
      [] op = "Import" -> 3
      [] op = "DeployDraft" -> 4
      [] op = "Deployment" -> 5
      [] op = "ImportDependencies" -> 6
      [] op = "UploadHostingAssets" -> 7
      [] op = "HostingCacheInvalidate" -> 8
SequencedOps == {"Diff", "CreateDraft", "Import", "DeployDraft", "Deployment",
                 "ImportDependencies", "UploadHostingAssets",
                 "HostingCacheInvalidate"}
Sequenced == {i \in DOMAIN calls : calls[i].op \in SequencedOps}
\* the order of the stages is kept, each call made at most once, CreateDraft
\* at most twice, the re-fetches any number of times
InStageOrder ==
    /\ LET s == SelectSeq(calls, LAMBDA c : c.op \in SequencedOps)
       IN  \A k \in 1..(Len(s) - 1) :
               \/ StageRank(s[k].op) < StageRank(s[k + 1].op)
               \/ /\ s[k].op = s[k + 1].op
                  /\ s[k].op \in {"CreateDraft", "Deployment"}
    /\ Cardinality(CallsOf("CreateDraft")) <= 2
\* Import needs a created draft, DeployDraft needs a successful Import
DraftBeforeImportBeforeDeploy ==
    /\ \A i \in CallsOf("Import") :
          \E k \in CallsOf("CreateDraft") : k < i /\ calls[k].err = NoErr
    /\ \A i \in CallsOf("DeployDraft") :
          \E k \in CallsOf("Import") : k < i /\ calls[k].err = NoErr

\* C15 (as stated): the remote calls of a push occur in the order Diff,
\* CreateDraft, Import, DeployDraft, re-fetches, ImportDependencies, hosting
\* upload, cache invalidation, each at most once (CreateDraft at most twice),
\* and a call is made only after every call made at an earlier place of
\* this order returned success.
C15_SequencingAllEarlierSucceeded ==
    /\ InStageOrder
    /\ DraftBeforeImportBeforeDeploy
    /\ \A i \in Sequenced :
          \/ calls[i].err = NoErr
          \/ \A j \in Sequenced :
                j > i => StageRank(calls[j].op) = StageRank(calls[i].op)

\* C15 (amended): as above, except that a CreateDraft that failed with the
\* draft-already-exists conflict may be followed by later calls once the
\* second CreateDraft has succeeded.
C15_Sequencing ==
    /\ InStageOrder
    /\ DraftBeforeImportBeforeDeploy
    /\ \A i \in Sequenced :
          \/ calls[i].err = NoErr
          \/ \A j \in Sequenced :
                j > i => StageRank(calls[j].op) = StageRank(calls[i].op)
          \/ /\ calls[i].op = "CreateDraft"
             /\ IsConflict(calls[i].err)
             /\ \E k \in CallsOf("CreateDraft") :
                   /\ i < k /\ calls[k].err = NoErr
                   /\ \A j \in Sequenced :
                         (j > i /\ calls[j].op # "CreateDraft") => j > k

C15_Witness ==
    /\ pc = "done"
    /\ Printed(MsgSuccess)
    /\ \A op \in SequencedOps : CallsOf(op) # {}
    /\ Cardinality(CallsOf("CreateDraft")) = 2
    /\ Cardinality(CallsOf("Deployment")) >= 2

\* the remote calls of the optional stages
OptionalStageOps == {"ImportDependencies", "UploadHostingAssets",
                     "HostingCacheInvalidate"}

\* C16: each optional stage is gated by its own flag alone: when a push
\* ran to its end with every stage succeeding, the dependency upload was
\* made iff IncludeDependencies, the hosting upload iff IncludeHosting and
\* the cache invalidation iff ResetCDNCache.
C16_StagesGatedIndependently ==
    (pc = "done" /\ Printed(MsgSuccess)) =>
        /\ CallsOf("ImportDependencies") # {} <=> inputs.IncludeDependencies
        /\ CallsOf("UploadHostingAssets") # {} <=> inputs.IncludeHosting
        /\ CallsOf("HostingCacheInvalidate") # {} <=> inputs.ResetCDNCache

\* C17: when an optional stage fails (finding or preparing the
\* dependencies, the dependency upload, the hosting upload, the cache
\* invalidation) the Handler returns that error at once: the failed call is
\* the last call made, no later stage and no compensating or repeated call
\* follows, and the success message is not printed.
C17_OptionalStageErrorAborts ==
    /\ \A i \in DOMAIN calls :
          (calls[i].op \in OptionalStageOps /\ calls[i].err # NoErr) =>
              /\ i = Len(calls)
              /\ pc = "done"
              /\ result.err = calls[i].err
              /\ ~Printed(MsgSuccess)
    /\ result.err.op \in {"FindAppDependencies", "PrepareUpload"} =>
          /\ pc = "done"
          /\ calls[Len(calls)].op \in {"DeployDraft", "Deployment"}
          /\ ~Printed(MsgSuccess)

C17_Witness ==
    /\ pc = "done"
    /\ result.err.op = "HostingCacheInvalidate"
    /\ calls[Len(calls)].op = "HostingCacheInvalidate"
    /\ \E i \in CallsOf("ImportDependencies") : calls[i].err = NoErr
    /\ \E i \in CallsOf("UploadHostingAssets") : calls[i].err = NoErr
    /\ ~Printed(MsgSuccess)

\* the diff of the proposed changes was presented
DiffPresented ==
    Printed("The following reflects the proposed changes to your Realm app")
\* the change confirmation was asked
ChangeConfirmationAsked ==
    \E i \in DOMAIN prompts :
        prompts[i].name = "Please confirm the changes shown above"

\* C18: the diff is presented and the change confirmation asked only when
\* the push is neither auto-confirmed nor targeting an app it has just
\* created; in that case draft creation is reached only with the diff
\* presented and the confirmation asked, and otherwise it is reached with
\* neither.
C18_DiffAndConfirmationOnlyWhenInteractiveAndExisting ==
    /\ DiffPresented => (~autoConfirm /\ ~isNewApp)
    /\ ChangeConfirmationAsked => (~autoConfirm /\ ~isNewApp)
    /\ (CallsOf("CreateDraft") # {} /\ ~autoConfirm /\ ~isNewApp) =>
          (DiffPresented /\ ChangeConfirmationAsked)

\* the steps that load the local app and resolve the target's identity
IdentitySteps == {"LoadApp", "resolveTo", "ResolveGroupID"}
\* the push has ended having made no call, printed nothing, asked nothing
EndedUntouched ==
    /\ pc = "done"
    /\ calls = <<>>
    /\ out = <<>>
    /\ prompts = <<>>

\* C19: when local.LoadApp, resolveTo or ResolveGroupID fails the Handler
\* returns that error having made no remote call at all; and a push that
\* ends without having called, printed or asked anything has returned the
\* error of one of these steps.
C19_IdentityFailureBeforeAnyMutation ==
    /\ result.err.op \in IdentitySteps => (EndedUntouched /\ Mutations = {})
    /\ EndedUntouched => result.err.op \in IdentitySteps

C19_Witness ==
    /\ pc = "done"
    /\ result.err.op = "ResolveGroupID"
    /\ to.GroupID = ""
    /\ Mutations = {}

\* C20: the change list of the app diff command is the lines the remote
\* Diff returned, in their order, then the line "+ New function
\* dependencies" iff IncludeDependencies is set, then the hosting diff lines
\* iff IncludeHosting is set; the command reports "identical" iff this
\* combined list is empty, and prints the list otherwise.
C20_DiffChangeList ==
    (pc = "done" /\ result.err = NoErr) =>
        LET expected ==
                appDiffs
                \o (IF inputs.IncludeDependencies
                    THEN <<"+ New function dependencies">> ELSE <<>>)
                \o (IF inputs.IncludeHosting THEN hostingDiffs ELSE <<>>)
        IN  /\ diffs = expected
            /\ Len(out) = 1
            /\ expected = <<>> <=>
                  out[1] = [kind |-> "text", lines |-> <<>>,
                            msg |-> "Deployed app is identical to proposed version"]
            /\ expected # <<>> <=>
                  out[1] = [kind |-> "text", lines |-> expected,
                            msg |-> "The following reflects the proposed changes to your Realm app"]

C20_Witness ==
    /\ pc = "done"
    /\ result.err = NoErr
    /\ inputs.IncludeDependencies /\ inputs.IncludeHosting
    /\ appDiffs = <<"a2", "a1">>
    /\ hostingDiffs = <<"h1">>
    /\ out[1].lines = <<"a2", "a1", "+ New function dependencies", "h1">>

\* C21: a failed remote Diff is fatal, in push and in app diff: Diff is
\* called at most once in a run, and when it fails the Handler returns
\* exactly that error, presents no diff and makes no later remote call.
C21_DiffFailureIsFatal ==
    /\ Cardinality(CallsOf("Diff")) <= 1
    /\ \A i \in CallsOf("Diff") :
          calls[i].err # NoErr =>
              /\ i = Len(calls)
              /\ pc = "done"
              /\ result = [returned |-> TRUE, err |-> calls[i].err]
              /\ ~DiffPresented
              /\ appDiffs = <<>> /\ diffs = <<>>

C21_Witness ==
    /\ ~IsDiffCommand
    /\ pc = "done"
    /\ isNewApp
    /\ result.err.op = "Diff"
    /\ Len(calls) = 2
    /\ calls[1].op = "CreateApp" /\ calls[2].op = "Diff"

\* Diff succeeded with no change, no dependencies are pushed and there is
\* no hosting difference (IncludeHosting unset, or a hosting diff of size 0)
NoChangeAnywhere ==
    /\ \E i \in CallsOf("Diff") : calls[i].err = NoErr
    /\ appDiffs = <<>>
    /\ ~inputs.IncludeDependencies
    /\ hostingDiffs = <<>>
\* the questions of createNewApp, asked before the Diff of a new app
CreateNewAppQuestions == {"Do you wish to create a new app?", "App Name",
                          "App Location", "App Deployment Model"}

StillInFlightAtBound ==
    /\ pc = "waitForDeployment"
    /\ deployment.Status \in {"created", "pending"}
    /\ Cardinality(CallsOf("Deployment")) >= MaxPolls

\* C23: when every call returns and the server reports, within the bound
\* on re-fetches, a status outside {Created, Pending} or a re-fetch fails,
\* deployDraftAndWait returns; and it never returns without error while the
\* last status it observed is Created or Pending.
C23_PollTermination ==
    /\ (pc = "DeployDraft") ~> (deployRet.returned \/ StillInFlightAtBound)
    /\ []((deployRet.returned /\ deployRet.err = NoErr) =>
            deployment.Status \notin {"created", "pending"})

C23_Witness ==
    /\ deployRet.returned
    /\ deployRet.err = NoErr
    /\ deployment.Status = "failed"
    /\ Cardinality(CallsOf("Deployment")) = MaxPolls

\* the discards createNewDraft made of a draft that already existed
ConflictDiscards ==
    {i \in DOMAIN calls : calls[i].op = "DiscardDraft" /\ calls[i].by = "createNewDraft"}

\* C24: in the conflict path of createNewDraft DiscardDraft is called only
\* after a successful Draft fetch and with the id that fetch returned; a
\* second CreateDraft is made only right after that DiscardDraft returned
\* success; when the Draft fetch or DiffDraft fails its error is returned
\* and neither DiscardDraft nor a second CreateDraft is made.
C24_ConflictPathOrder ==
    /\ \A i \in ConflictDiscards :
          \E j \in CallsOf("Draft") :
              /\ j < i
              /\ calls[j].err = NoErr
              /\ calls[i].args = <<calls[j].ret>>
    /\ \A k \in CallsOf("CreateDraft") :
          (\E k0 \in CallsOf("CreateDraft") : k0 < k) =>
              /\ k - 1 \in ConflictDiscards
              /\ calls[k - 1].err = NoErr
    /\ \A j \in CallsOf("Draft") \cup CallsOf("DiffDraft") :
          calls[j].err # NoErr =>
              /\ j = Len(calls)
              /\ ConflictDiscards = {}
              /\ Cardinality(CallsOf("CreateDraft")) = 1
              /\ draftRet = [returned |-> TRUE, draft |-> "", proceed |-> FALSE,
                             err |-> calls[j].err]
              /\ pc \in {"Handler_createNewDraft", "done"}
              /\ pc = "done" => result.err = calls[j].err

C24_Witness ==
    /\ pc = "done"
    /\ result.err.op = "DiffDraft"
    /\ calls[Len(calls)].op = "DiffDraft"
    /\ calls[Len(calls)].args = <<"d0">>
    /\ ConflictDiscards = {}

\* C26: app diff is read-only: whatever the flags and whatever fails, the
\* only remote calls it makes besides resolving the app are Diff and
\* HostingAssets, each at most once, HostingAssets only with IncludeHosting
\* set and only after a successful Diff; it asks nothing.
C26_DiffIsReadOnly ==
    /\ \A i \in DOMAIN calls :
          /\ calls[i].op \in {"Diff", "HostingAssets"}
          /\ calls[i].op \notin MutatingOps
    /\ Len(calls) <= 2
    /\ \A i \in CallsOf("HostingAssets") :
          /\ inputs.IncludeHosting
          /\ i = 2 /\ calls[1].op = "Diff" /\ calls[1].err = NoErr
    /\ prompts = <<>>

C26_Witness ==
    /\ pc = "done"
    /\ result.err.op = "HostingAssets"
    /\ Len(calls) = 2
    /\ calls[2].op = "HostingAssets" /\ calls[2].err # NoErr
    /\ out = <<>>

\* the change list both commands are to present for a Diff result, the
\* flags and a hosting diff
ChangeList ==
    appDiffs
    \o (IF inputs.IncludeDependencies
        THEN <<"+ New function dependencies">> ELSE <<>>)
    \o hostingDiffs
\* what the run printed under the heading of the proposed changes
PresentedLists ==
    {out[i].lines : i \in {j \in DOMAIN out : out[j].msg =
        "The following reflects the proposed changes to your Realm app"}}
ReportedIdentical ==
    \E i \in DOMAIN out :
        out[i].msg \in {"Deployed app is identical to proposed version, nothing to do",
                        "Deployed app is identical to proposed version"}

\* C27: for an existing app, a dry-run push without auto-confirm and the
\* app diff command, given the same Diff result, hosting diff and include
\* flags, present the same ordered change list and agree on "identical":
\* each that ends without error has reported "identical" iff ChangeList is
\* empty and has otherwise presented exactly ChangeList.
C27_DryRunPushPresentsWhatDiffPresents ==
    (/\ pc = "done"
     /\ result.err = NoErr
     /\ \/ IsDiffCommand
        \/ /\ ~IsDiffCommand
           /\ inputs.DryRun /\ ~autoConfirm /\ ~isNewApp
           /\ CallsOf("Diff") # {})
    =>
    /\ ReportedIdentical <=> ChangeList = <<>>
    /\ PresentedLists = IF ChangeList = <<>> THEN {} ELSE {ChangeList}

C27_Witness ==
    /\ ~IsDiffCommand
    /\ pc = "done"
    /\ inputs.DryRun /\ ~autoConfirm /\ ~isNewApp
    /\ inputs.IncludeDependencies /\ inputs.IncludeHosting
    /\ appDiffs = <<"a1", "a2">> /\ hostingDiffs = <<"h1">>
    /\ PresentedLists = {<<"a1", "a2", "+ New function dependencies", "h1">>}

\* the attempt has its own draft and has not yet seen the end of deploying it
HoldsDraft(a) ==
    attempt[a].pc \in {"Import", "DeployDraft", "waitForDeployment"}

\* C25: with two attempts at once and a server that keeps at most one live
\* draft, no attempt discards the draft the other attempt created while
\* that attempt is between its successful CreateDraft and the end of its
\* deployment; so no attempt imports into a draft other than its own.
C25_NoDiscardOfForeignLiveDraft ==
    \A a \in Attempts :
        /\ HoldsDraft(a) =>
              \A b \in Attempts \ {a} :
                  <<attempt[a].draft, b>> \notin server.discards
        /\ \A id \in {"", "d0", "d1", "d2"} :
              <<id, a>> \in server.imports => id = attempt[a].draft

====
